---- MODULE Spec2Model ----
(***************************************************************************)
(* Verification model of the Agastya converters module (DMC upgrade,       *)
(* S1000D document assembly, AsciiDoc cleanup).                            *)
(*                                                                         *)
(* A text is a sequence of one-character strings.  The literal "{plus}"    *)
(* is carried as one lexeme: no regular expression of the module looks     *)
(* inside it except the one that matches it whole.                         *)
(***************************************************************************)
EXTENDS Integers, Sequences, FiniteSets, TLC

\* converters module: one call of processDMC / cleanupAdocContent /
\* convertDocxToAdoc
VARIABLES pc, baseCode, upgraded, filename, docType, outcome, content,
          typed, stripped, cleaned, cleanedTwice, outFile, result

\* DM code generator page: the input fields, the per-unit table and the
\* module-level selection variables
VARIABLES form, dcTable, selectedSystemCode, selectedSubsystemCode,
          selectedBaseInfoCode, dmCodeResult

\* hierarchy browser of the generator page: the selected source file, the
\* JSON the fetch returns, the stored tree, the search box, the id held in
\* debounceTimer (0 for undefined), the timeouts pending in the page, the
\* tree items shown, the last value filterSystemData returned and the last
\* event dispatched
VARIABLES sourceFile, rawData, loadState, fullSystemData, searchInput,
          debounceTimer, timers, treeItems, filtered, lastEvent

\* one invocation of a batch conversion handler of the main process: the
\* channel, the number of files, the handler's position, the loop index, the
\* temp directory, the results collected, the progress events sent, what
\* happened to each file so far, how the try block was left and what the
\* caller of invoke() received
VARIABLES channel, fileCount, hpc, fileIndex, tempDir, results, progress,
          fates, completion, delivered

\* the temp-directory handlers of the main process running side by side:
\* the calls in progress, the clock Date.now() reads and the temp directories
\* that exist on disk
VARIABLES calls, clock, tmpDirs

\* source selections of the generator page whose fetch is still pending
VARIABLES requests

\* the ICN migration of one AsciiDoc text: the text, the result of one pass
\* and of a second pass over that result
VARIABLES icnInput, icnOnce, icnTwice

convVars == <<pc, baseCode, upgraded, filename, docType, outcome, content,
              typed, stripped, cleaned, cleanedTwice, outFile, result>>

genVars == <<form, dcTable, selectedSystemCode, selectedSubsystemCode,
             selectedBaseInfoCode, dmCodeResult>>

treeVars == <<sourceFile, rawData, loadState, fullSystemData, searchInput,
              debounceTimer, timers, treeItems, filtered, lastEvent>>

batchVars == <<channel, fileCount, hpc, fileIndex, tempDir, results,
               progress, fates, completion, delivered>>

hdlVars == <<calls, clock, tmpDirs>>

icnVars == <<icnInput, icnOnce, icnTwice>>

\* the groups added last, which the earlier groups' actions leave alone
otherVars == <<hdlVars, requests, icnVars>>

nonConvVars == <<genVars, treeVars, batchVars, otherVars>>

nonGenVars == <<convVars, treeVars, batchVars, otherVars>>

nonTreeVars == <<convVars, genVars, batchVars, otherVars>>

nonBatchVars == <<convVars, genVars, treeVars, otherVars>>

nonHdlVars == <<convVars, genVars, treeVars, batchVars, requests, icnVars>>

nonIcnVars == <<convVars, genVars, treeVars, batchVars, hdlVars, requests>>

vars == <<convVars, genVars, treeVars, batchVars, otherVars>>

(***************************************************************************)
(* Bounds                                                                  *)
(***************************************************************************)
MaxSegs == 11

(***************************************************************************)
(* String helpers (JavaScript String semantics)                            *)
(***************************************************************************)
Hyphen == "-"

NoValue == <<"<none>">>

SliceInit_firstChar(s) == IF Len(s) = 0 THEN <<>> ELSE <<s[1]>>

\* s.slice(0, -1)
SliceInit(s) == IF Len(s) = 0 THEN <<>> ELSE SubSeq(s, 1, Len(s) - 1)

\* s.slice(-1)
SliceLast(s) == IF Len(s) = 0 THEN <<>> ELSE <<s[Len(s)]>>

CharAtOrEmpty_zeroPadded(s, i) == IF Len(s) > i THEN <<s[i + 1]>> ELSE <<"0">>

\* s[i] || ''   (i is the zero-based JavaScript index)
CharAtOrEmpty(s, i) == IF Len(s) > i THEN <<s[i + 1]>> ELSE <<>>

\* s.split('-'): always at least one part, the empty string gives <<"">>
RECURSIVE SplitFrom(_, _, _)
SplitFrom(s, i, cur) ==
    IF i > Len(s) THEN <<cur>>
    ELSE IF s[i] = Hyphen THEN <<cur>> \o SplitFrom(s, i + 1, <<>>)
    ELSE SplitFrom(s, i + 1, Append(cur, s[i]))

Split(s) == SplitFrom(s, 1, <<>>)

\* parts.join('-'), the effect of the template literal of processDMC
RECURSIVE Join(_)
Join(parts) ==
    IF Len(parts) = 0 THEN <<>>
    ELSE IF Len(parts) = 1 THEN parts[1]
    ELSE parts[1] \o <<Hyphen>> \o Join(Tail(parts))

(***************************************************************************)
(* processDMC                                                              *)
(***************************************************************************)
LegacyShape_atLeast9(parts) == Len(parts) >= 9

\* if (parts.length === 9)
LegacyShape(parts) == Len(parts) = 9

DocTypeOf_prefix00(infoCode) ==
    IF Len(infoCode) >= 2 /\ SubSeq(infoCode, 1, 2) = <<"0", "0">>
    THEN "proced" ELSE "descript"

\* infoCode === '000' ? 'proced' : 'descript'
DocTypeOf(infoCode) ==
    IF infoCode = <<"0", "0", "0">> THEN "proced" ELSE "descript"

processDMC(code) ==
    LET parts == Split(code) IN
    IF LegacyShape(parts)
    THEN LET subSystemCode      == CharAtOrEmpty(parts[4], 0)
             subSubSystemCode   == CharAtOrEmpty(parts[4], 1)
             disassyCode        == SliceInit(parts[7])
             disassyCodeVariant == SliceLast(parts[7])
             infoCode           == SliceInit(parts[8])
             infoCodeVariant    == SliceLast(parts[8])
         IN [dmc |-> Join(<<parts[1], parts[2], parts[3],
                            subSystemCode, subSubSystemCode,
                            parts[5], parts[6],
                            disassyCode, disassyCodeVariant,
                            infoCode, infoCodeVariant,
                            parts[9]>>),
             docType |-> DocTypeOf(infoCode)]
    ELSE [dmc |-> code, docType |-> "descript"]

(***************************************************************************)
(* Inputs of the DMC specification: hyphen-delimited codes built segment   *)
(* by segment.  Segments 4, 7 and 8 (the ones processDMC splits) range     *)
(* over CombinedSegs, the others over PlainSegs.                           *)
(***************************************************************************)
PlainSegs == { <<>>, <<"M">> }

CombinedSegs == { <<>>, <<"1">>, <<"1", "2">>, <<"A", "B", "1">>,
                  <<"0", "0", "0">>, <<"0", "0", "0", "A">> }

SegsAt(i) == IF i \in {4, 7, 8} THEN CombinedSegs ELSE PlainSegs

\* the example of the specification (8 segments) and the same code with an
\* assembly segment (9 segments)
ExampleCode ==
    <<"M","O","D","E","L","-","S","D","C","-","S","Y","S","-","1","2","-",
      "0","0","-","A","B","1","-","C","D","2","-","E">>

ExampleCode9 ==
    <<"M","O","D","E","L","-","S","D","C","-","S","Y","S","-","1","2","-",
      "0","0","-","0","0","-","A","B","1","-","C","D","2","-","E">>

NoUpgrade == [dmc |-> NoValue, docType |-> "none"]

NoResult == [success |-> FALSE, error |-> "none"]

\* the converters are not running
ConvIdle ==
    /\ pc = "idle"
    /\ baseCode = NoValue
    /\ upgraded = NoUpgrade
    /\ filename = NoValue
    /\ docType = "none"
    /\ outcome = "none"
    /\ content = NoValue
    /\ typed = 0
    /\ stripped = NoValue
    /\ cleaned = NoValue
    /\ cleanedTwice = NoValue
    /\ outFile = NoValue
    /\ result = NoResult

\* the generator page as initialize() leaves it: empty fields, the table
\* row of unit "00", nothing selected, no code shown
EmptyForm == [model |-> <<>>, sdc |-> <<>>, dmv |-> <<>>,
              unitCount |-> <<>>, infoCodeVariant |-> <<>>]

GenIdle ==
    /\ form = EmptyForm
    /\ dcTable = [u \in {0} |-> <<>>]
    /\ selectedSystemCode = <<>>
    /\ selectedSubsystemCode = <<>>
    /\ selectedBaseInfoCode = <<>>
    /\ dmCodeResult = <<>>

NoEvent == [type |-> "none", index |-> 0]

\* the browser as initialize() leaves it: no source selected, buildTree([])
TreeIdle ==
    /\ sourceFile = ""
    /\ rawData = <<>>
    /\ loadState = "idle"
    /\ fullSystemData = <<>>
    /\ searchInput = <<>>
    /\ debounceTimer = 0
    /\ timers = {}
    /\ treeItems = <<>>
    /\ filtered = <<>>
    /\ lastEvent = NoEvent

NothingDelivered == [kind |-> "none", success |-> FALSE, results |-> <<>>,
                     error |-> ""]

\* no handler invoked
BatchIdle ==
    /\ channel = ""
    /\ fileCount = 0
    /\ hpc = "idle"
    /\ fileIndex = 0
    /\ tempDir = "none"
    /\ results = <<>>
    /\ progress = <<>>
    /\ fates = <<>>
    /\ completion = "none"
    /\ delivered = NothingDelivered

NoReply == [kind |-> "none", success |-> FALSE, error |-> "",
            payload |-> "none"]

NoDir == [prefix |-> "", stamp |-> 0]

\* a call slot no handler runs in
NoCall == [channel |-> "", at |-> "idle", dir |-> NoDir, created |-> FALSE,
           cleaned |-> FALSE, rmFailed |-> FALSE, read |-> "none",
           scriptOk |-> FALSE,
           pending |-> NoReply, reply |-> NoReply]

CallIds == {"first", "second"}

\* no handler running, no temp directory on disk
HdlIdle ==
    /\ calls = [c \in CallIds |-> NoCall]
    /\ clock = 0
    /\ tmpDirs = {}

NoMigration == [text |-> <<>>, changeCount |-> 0, done |-> FALSE]

\* no text given to the migration
IcnIdle ==
    /\ icnInput = <<>>
    /\ icnOnce = NoMigration
    /\ icnTwice = NoMigration

OtherIdle == HdlIdle /\ requests = <<>> /\ IcnIdle

NonConvIdle == GenIdle /\ TreeIdle /\ BatchIdle /\ OtherIdle

NonGenIdle == ConvIdle /\ TreeIdle /\ BatchIdle /\ OtherIdle

NonTreeIdle == ConvIdle /\ GenIdle /\ BatchIdle /\ OtherIdle

InitDMC ==
    /\ pc = "input"
    /\ baseCode \in PlainSegs \cup {ExampleCode, ExampleCode9}
    /\ upgraded = NoUpgrade
    /\ filename = NoValue
    /\ docType = "none"
    /\ outcome = "none"
    /\ content = NoValue
    /\ typed = 0
    /\ stripped = NoValue
    /\ cleaned = NoValue
    /\ cleanedTwice = NoValue
    /\ outFile = NoValue
    /\ result = NoResult
    /\ NonConvIdle

\* the caller types one more segment of the code
ExtendCode ==
    /\ pc = "input"
    /\ baseCode \notin {ExampleCode, ExampleCode9}
    /\ Len(Split(baseCode)) < MaxSegs
    /\ \E seg \in SegsAt(Len(Split(baseCode)) + 1) :
          baseCode' = baseCode \o <<Hyphen>> \o seg
    /\ UNCHANGED <<pc, upgraded, filename, docType, outcome, content,
                   typed, stripped, cleaned, cleanedTwice, outFile, result>>
    /\ UNCHANGED nonConvVars

\* a call of processDMC(baseCode)
Upgrade ==
    /\ pc = "input"
    /\ upgraded' = processDMC(baseCode)
    /\ pc' = "done"
    /\ UNCHANGED <<baseCode, filename, docType, outcome, content,
                   typed, stripped, cleaned, cleanedTwice, outFile, result>>
    /\ UNCHANGED nonConvVars

NextDMC == ExtendCode \/ Upgrade

SpecDMC == InitDMC /\ [][NextDMC]_vars

(***************************************************************************)
(* cleanupAdocContent: the five global regular-expression replacements,    *)
(* each as the leftmost match at a position (with the backtracking order   *)
(* of the JavaScript engine) and a left-to-right scan that resumes at the  *)
(* end of the match.                                                       *)
(***************************************************************************)
WhiteSpace == {" ", "\t", "\n", "\r", "\f"}

LineTerminators == {"\n", "\r"}

PlusLexeme == "{plus}"

Max(S) == CHOOSE x \in S : \A y \in S : y <= x

Min(S) == CHOOSE x \in S : \A y \in S : x <= y

\* position after the greedy \s* starting at position i
RECURSIVE WsRunEnd(_, _)
WsRunEnd(t, i) ==
    IF i <= Len(t) /\ t[i] \in WhiteSpace THEN WsRunEnd(t, i + 1) ELSE i

\* position after the greedy -* starting at position i
RECURSIVE DashRunEnd(_, _)
DashRunEnd(t, i) ==
    IF i <= Len(t) /\ t[i] = "-" THEN DashRunEnd(t, i + 1) ELSE i

\* position after the longest run of '.' (no line terminator) from i
RECURSIVE DotRunEnd(_, _)
DotRunEnd(t, i) ==
    IF i <= Len(t) /\ t[i] \notin LineTerminators
    THEN DotRunEnd(t, i + 1) ELSE i

\* $ with the m flag, at the position before t[i]
AtEOL(t, i) == i = Len(t) + 1 \/ t[i] \in LineTerminators

\* ^ with the m flag, at the position before t[i]
AtBOL(t, i) == i = 1 \/ t[i - 1] \in LineTerminators

\* greedy \s* from position i followed by $: the position where $ holds
\* (the last one the backtracking reaches first), 0 when there is none
WsThenEOL(t, i) ==
    LET ends == {m \in i..WsRunEnd(t, i) : AtEOL(t, m)} IN
    IF ends = {} THEN 0 ELSE Max(ends)

NoMatch == [len |-> 0, end |-> 0]

\* /(.+?)\s*\+\s*$/m at position i: len is the length of $1, end the
\* position after the match
TrailingPlusAt(t, i) ==
    LET ok(k) == LET p == WsRunEnd(t, i + k) IN
                 /\ p <= Len(t)
                 /\ t[p] = "+"
                 /\ WsThenEOL(t, p + 1) # 0
        ks == {k \in 1..(DotRunEnd(t, i) - i) : ok(k)}
    IN IF ks = {} THEN NoMatch
       ELSE [len |-> Min(ks),
             end |-> WsThenEOL(t, WsRunEnd(t, i + Min(ks)) + 1)]

\* content.replace(/(.+?)\s*\+\s*$/gm, '$1')
RECURSIVE StripTrailingPlusFrom(_, _)
StripTrailingPlusFrom(t, i) ==
    IF i > Len(t) THEN <<>>
    ELSE LET m == TrailingPlusAt(t, i) IN
         IF m.end # 0
         THEN SubSeq(t, i, i + m.len - 1) \o StripTrailingPlusFrom(t, m.end)
         ELSE <<t[i]>> \o StripTrailingPlusFrom(t, i + 1)

StripTrailingPlus(t) == StripTrailingPlusFrom(t, 1)

\* /^\s*\{plus\}\s*$/m at position i: the position after the match, or 0
PlusLexemeAt(t, i) ==
    LET p == WsRunEnd(t, i) IN
    IF AtBOL(t, i) /\ p <= Len(t) /\ t[p] = PlusLexeme
    THEN WsThenEOL(t, p + 1) ELSE 0

\* content.replace(/^\s*\{plus\}\s*$/gm, '+')
RECURSIVE ReplacePlusLexemeFrom(_, _)
ReplacePlusLexemeFrom(t, i) ==
    IF i > Len(t) THEN <<>>
    ELSE LET e == PlusLexemeAt(t, i) IN
         IF e # 0 THEN <<"+">> \o ReplacePlusLexemeFrom(t, e)
         ELSE <<t[i]>> \o ReplacePlusLexemeFrom(t, i + 1)

ReplacePlusLexeme(t) == ReplacePlusLexemeFrom(t, 1)

\* /(--\n)\s+/ at position i: the position after the match, or 0
OpenDelimiterAt(t, i) ==
    IF /\ i + 3 <= Len(t)
       /\ t[i] = "-" /\ t[i + 1] = "-" /\ t[i + 2] = "\n"
       /\ t[i + 3] \in WhiteSpace
    THEN WsRunEnd(t, i + 3) ELSE 0

\* content.replace(/(--\n)\s+/g, '$1')
RECURSIVE TrimAfterOpenFrom(_, _)
TrimAfterOpenFrom(t, i) ==
    IF i > Len(t) THEN <<>>
    ELSE LET e == OpenDelimiterAt(t, i) IN
         IF e # 0 THEN <<"-", "-", "\n">> \o TrimAfterOpenFrom(t, e)
         ELSE <<t[i]>> \o TrimAfterOpenFrom(t, i + 1)

TrimAfterOpen(t) == TrimAfterOpenFrom(t, 1)

\* /\s+(\n--)/ at position i: the position after the match, or 0
CloseDelimiterAt(t, i) ==
    LET js == {j \in (i + 1)..WsRunEnd(t, i) :
                  /\ j + 2 <= Len(t)
                  /\ t[j] = "\n" /\ t[j + 1] = "-" /\ t[j + 2] = "-"}
    IN IF js = {} THEN 0 ELSE Max(js) + 3

\* content.replace(/\s+(\n--)/g, '$1')
RECURSIVE TrimBeforeCloseFrom(_, _)
TrimBeforeCloseFrom(t, i) ==
    IF i > Len(t) THEN <<>>
    ELSE LET e == CloseDelimiterAt(t, i) IN
         IF e # 0 THEN <<"\n", "-", "-">> \o TrimBeforeCloseFrom(t, e)
         ELSE <<t[i]>> \o TrimBeforeCloseFrom(t, i + 1)

TrimBeforeClose(t) == TrimBeforeCloseFrom(t, 1)

ThematicBreak == <<"\n", "\n", "-", "-", "-", "\n", "\n">>

\* /\s*^\s*-{3,}\s*$\s*/m at position i: the position after the match, or 0
ThematicBreakAt(t, i) ==
    LET r == WsRunEnd(t, i)
        d == DashRunEnd(t, r)
    IN IF /\ \E p \in i..r : AtBOL(t, p)
          /\ d - r >= 3
          /\ WsThenEOL(t, d) # 0
       THEN WsRunEnd(t, d) ELSE 0

\* content.replace(/\s*^\s*-{3,}\s*$\s*/gm, '\n\n---\n\n')
RECURSIVE NormalizeBreaksFrom(_, _)
NormalizeBreaksFrom(t, i) ==
    IF i > Len(t) THEN <<>>
    ELSE LET e == ThematicBreakAt(t, i) IN
         IF e # 0 THEN ThematicBreak \o NormalizeBreaksFrom(t, e)
         ELSE <<t[i]>> \o NormalizeBreaksFrom(t, i + 1)

NormalizeBreaks(t) == NormalizeBreaksFrom(t, 1)

cleanupAdocContent(c) ==
    NormalizeBreaks(TrimBeforeClose(TrimAfterOpen(
        ReplacePlusLexeme(StripTrailingPlus(c)))))

(***************************************************************************)
(* Inputs of the cleanup specification: texts typed chunk by chunk.        *)
(***************************************************************************)
MaxChunks == 5

Chunks == { <<"a">>, <<"+">>, <<" ">>, <<"\n">>, <<"-", "-">>,
            <<"-", "-", "-">>, <<PlusLexeme>> }

InitCleanup ==
    /\ pc = "input"
    /\ content = <<>>
    /\ typed = 0
    /\ stripped = NoValue
    /\ cleaned = NoValue
    /\ cleanedTwice = NoValue
    /\ baseCode = NoValue
    /\ upgraded = NoUpgrade
    /\ filename = NoValue
    /\ docType = "none"
    /\ outcome = "none"
    /\ outFile = NoValue
    /\ result = NoResult
    /\ NonConvIdle

\* one more chunk of the converted text
TypeText ==
    /\ pc = "input"
    /\ typed < MaxChunks
    /\ \E c \in Chunks : content' = content \o c
    /\ typed' = typed + 1
    /\ UNCHANGED <<pc, baseCode, upgraded, filename, docType, outcome,
                   stripped, cleaned, cleanedTwice, outFile, result>>
    /\ UNCHANGED nonConvVars

\* a call of cleanupAdocContent(content); stripped is the value of the
\* local variable after the first replacement
Cleanup ==
    /\ pc = "input"
    /\ stripped' = StripTrailingPlus(content)
    /\ cleaned' = cleanupAdocContent(content)
    /\ pc' = "cleaned"
    /\ UNCHANGED <<baseCode, upgraded, filename, docType, outcome, content,
                   typed, cleanedTwice, outFile, result>>
    /\ UNCHANGED nonConvVars

\* a call of cleanupAdocContent on the text the first call returned
CleanupAgain ==
    /\ pc = "cleaned"
    /\ cleanedTwice' = cleanupAdocContent(cleaned)
    /\ pc' = "recleaned"
    /\ UNCHANGED <<baseCode, upgraded, filename, docType, outcome, content,
                   typed, stripped, cleaned, outFile, result>>
    /\ UNCHANGED nonConvVars

NextCleanup == TypeText \/ Cleanup \/ CleanupAgain

SpecCleanup == InitCleanup /\ [][NextCleanup]_vars

(***************************************************************************)
(* Document assembly.  The fixed lines of the header and footer templates  *)
(* are carried as one lexeme each (they hold no '+', no "--" and no white  *)
(* space at either end); the line ends and the code are characters.        *)
(***************************************************************************)
ProceduralHeaderHead ==
    <<"= My Procedural Data Module", "\n", ":dmc: DMC-">>

ProceduralHeaderTail ==
    <<"\n", ":dm-type: procedural", "\n", ":issue-number: 001", "\n",
      ":issue-date: 2023-10-26", "\n",
      ":tech-name: Comprehensive Converter Test Procedure", "\n",
      ":dm-title: Step-by-Step Guide", "\n", ":revdate: 2025-09-02", "\n",
      ":in-work: 00", "\n", ":lang: en", "\n", ":country-code: IN", "\n",
      ":security-classification: 01", "\n",
      ":responsible-partner-company: LNTDEFENCE", "\n",
      ":enterprise-code-rpc: 1671Y", "\n",
      ":originator-enterprise: LNTDEFENCE", "\n",
      ":enterprise-code-originator: 1671Y", "\n",
      ":applicability: All applicable units and serial numbers.", "\n",
      ":brex-dmc: DMC-GSV-H-041-1-0-0301-00-A-022-A-D", "\n",
      ":reason-for-update: Initial draft for demonstration purposes.",
      "\n",
      ":s1000d-schema-base-path: http://www.s1000d.org/S1000D_4-2/xml_schema_flat/",
      "\n", "\n", "[[prelim_reqs]]", "\n", "== Preliminary Requirements",
      "\n", "\n", "[[required_conditions_pr]]", "\n",
      "=== Required Conditions", "\n", "\n", "[[required_persons_pr]]",
      "\n", "=== Required Persons", "\n", "\n",
      "[[required_tech_info_pr]]", "\n",
      "=== Required Technical Information", "\n", "\n",
      "[[required_equip_pr]]", "\n", "=== Required Support Equipment",
      "\n", "\n", "[[required_supplies_pr]]", "\n",
      "=== Required Supplies", "\n", "\n", "[[required_spares_pr]]", "\n",
      "=== Required Spares", "\n", "\n", "[[required_safety_pr]]", "\n",
      "=== Required Safety", "\n", "\n", "[[main_proc_steps]]", "\n",
      "== Main Procedure", "\n", "\n">>

DescriptHeaderHead ==
    <<":dmc: DMC-">>

DescriptHeaderTail ==
    <<"\n", ":dm-type: descript", "\n", ":issue-number: 001", "\n",
      ":dm-title: Sample Descriptive Module", "\n", ":revdate: 2025-09-02",
      "\n", ":in-work: 00", "\n", ":lang: en", "\n", ":country-code: IN",
      "\n", ":security-classification: 01", "\n",
      ":responsible-partner-company: LNTDEFENCE", "\n",
      ":enterprise-code-rpc: 1671Y", "\n",
      ":originator-enterprise: LNTDEFENCE", "\n",
      ":enterprise-code-originator: 1671Y", "\n",
      ":applicability: All applicable units and serial numbers.", "\n",
      ":brex-dmc: DMC-GSV-H-041-1-0-0301-00-A-022-A-D", "\n",
      ":reason-for-update: Initial draft for demonstration purposes.",
      "\n", "\n">>

createS1000DHeader(dmc, dt) ==
    IF dt = "proced"
    THEN ProceduralHeaderHead \o dmc \o ProceduralHeaderTail
    ELSE DescriptHeaderHead \o dmc \o DescriptHeaderTail

createProceduralFooter ==
    <<"\n", "\n", "[[closeout_reqs]]", "\n", "== Closeout Requirements",
      "\n", "\n", "[[closeout_conds_after]]", "\n",
      "=== Required Conditions After Job Completion", "\n", "\n">>

finalContent_footerUnlessDescript(header, cleanedContent, dt) ==
    IF dt # "descript"
    THEN header \o cleanedContent \o createProceduralFooter
    ELSE header \o cleanedContent

\* docType === 'proced' ? header + cleanedContent + createProceduralFooter()
\*                      : header + cleanedContent
finalContent(header, cleanedContent, dt) ==
    IF dt = "proced"
    THEN header \o cleanedContent \o createProceduralFooter
    ELSE header \o cleanedContent

DmcPrefix == <<"D", "M", "C", "-">>

\* s.replace(pat, ''): the first occurrence of pat is removed
ReplaceFirstWithEmpty(s, pat) ==
    LET at == {i \in 1..(Len(s) - Len(pat) + 1) :
                  SubSeq(s, i, i + Len(pat) - 1) = pat}
    IN IF at = {} THEN s
       ELSE SubSeq(s, 1, Min(at) - 1) \o SubSeq(s, Min(at) + Len(pat), Len(s))

\* const { docType = 'descript' } = options
DocTypeOption(opt) == IF opt = "undefined" THEN "descript" ELSE opt

(***************************************************************************)
(* convertDocxToAdoc                                                       *)
(***************************************************************************)
MaxBodyChunks == 3

DocTypeOptions == {"undefined", "descript", "proced", "fault", "ipd"}

\* where the try block of convertDocxToAdoc can leave
Outcomes == {"ok", "pandocMissing", "pandocFailed", "readFailed",
             "writeFailed"}

Canonical11 ==
    <<"G","S","V","-","H","-","0","4","1","-","1","-","0","-","0","3","0",
      "1","-","0","0","-","A","-","0","2","2","-","A","-","D">>

Procedural9 ==
    <<"M","-","S","-","0","1","-","1","2","-","0","0","-","0","0","-",
      "0","0","A","-","0","0","0","A","-","D">>

Filenames ==
    { <<>>, <<"r","e","p","o","r","t">>, ExampleCode, ExampleCode9,
      Canonical11, Procedural9,
      DmcPrefix \o ExampleCode9, DmcPrefix \o Canonical11 }


InitConvert ==
    /\ pc = "input"
    /\ filename \in Filenames
    /\ docType \in DocTypeOptions
    /\ content = <<>>
    /\ typed = 0
    /\ outcome = "none"
    /\ baseCode = NoValue
    /\ upgraded = NoUpgrade
    /\ stripped = NoValue
    /\ cleaned = NoValue
    /\ cleanedTwice = NoValue
    /\ outFile = NoValue
    /\ result = NoResult
    /\ NonConvIdle

\* one more chunk of the text Pandoc will produce for the input file
TypeBody ==
    /\ pc = "input"
    /\ typed < MaxBodyChunks
    /\ \E c \in Chunks : content' = content \o c
    /\ typed' = typed + 1
    /\ UNCHANGED <<pc, baseCode, upgraded, filename, docType, outcome,
                   stripped, cleaned, cleanedTwice, outFile, result>>
    /\ UNCHANGED nonConvVars

\* convertDocxToAdoc(inputPath, outputPath, options); o names the step of
\* the try block that throws ("ok": none does).  When only the final write
\* fails, outputPath still holds the text Pandoc wrote.
Convert(o) ==
    /\ pc = "input"
    /\ pc' = "converted"
    /\ outcome' = o
    /\ IF o \in {"pandocMissing", "pandocFailed", "readFailed"}
       THEN /\ outFile' = NoValue
            /\ result' = [success |-> FALSE, error |-> o]
            /\ UNCHANGED <<baseCode, upgraded, stripped, cleaned>>
       ELSE /\ baseCode' = ReplaceFirstWithEmpty(filename, DmcPrefix)
            /\ upgraded' = processDMC(baseCode')
            /\ stripped' = StripTrailingPlus(content)
            /\ cleaned' = cleanupAdocContent(content)
            /\ IF o = "writeFailed"
               THEN /\ outFile' = content
                    /\ result' = [success |-> FALSE, error |-> o]
               ELSE /\ outFile' =
                          finalContent(
                              createS1000DHeader(upgraded'.dmc,
                                                 DocTypeOption(docType)),
                              cleaned', DocTypeOption(docType))
                    /\ result' = [success |-> TRUE,
                                  error |-> "none"]
    /\ UNCHANGED <<filename, docType, content, typed, cleanedTwice>>
    /\ UNCHANGED nonConvVars

NextConvert == TypeBody \/ \E o \in Outcomes : Convert(o)

SpecConvert == InitConvert /\ [][NextConvert]_vars

(***************************************************************************)
(* DM code generator: updateDcTable, updateResult and the handlers that    *)
(* call them                                                               *)
(***************************************************************************)
MaxUnits == 2

\* files in one batch
MaxFiles == 3

\* milliseconds the clock advances while handlers run
MaxClock == 1

\* fetches of loadSystemData pending together
MaxPending == 3

\* timeouts of the page pending together
MaxTimers == 2

\* lines of a file given to migrateInlineCodes
MaxLines == 4

\* entries (groups, systems and subsystems) held by the page: the nodes of
\* the stored tree and the entries of the response being received
MaxEntries == 4

Digits == <<"0", "1", "2", "3", "4", "5", "6", "7", "8", "9">>

IsDigit(c) == \E d \in 1..10 : Digits[d] = c

DigitValue(c) == (CHOOSE d \in 1..10 : Digits[d] = c) - 1

\* s.trim()
RECURSIVE TrimStart(_)
TrimStart(s) ==
    IF Len(s) > 0 /\ s[1] \in WhiteSpace THEN TrimStart(Tail(s)) ELSE s

RECURSIVE TrimEnd(_)
TrimEnd(s) ==
    IF Len(s) > 0 /\ s[Len(s)] \in WhiteSpace
    THEN TrimEnd(SubSeq(s, 1, Len(s) - 1)) ELSE s

Trim(s) == TrimEnd(TrimStart(s))

\* the value of the decimal digits s[i], s[i+1], ... up to the first
\* character that is no digit
RECURSIVE DigitsValue(_, _, _)
DigitsValue(s, i, acc) ==
    IF i <= Len(s) /\ IsDigit(s[i])
    THEN DigitsValue(s, i + 1, 10 * acc + DigitValue(s[i]))
    ELSE acc

\* parseInt(s) || 0: leading white space, an optional sign, then digits;
\* NaN (no digit there) and 0 both give 0
ParseIntOrZero(s) ==
    LET t == TrimStart(s)
        signed == Len(t) > 0 /\ t[1] \in {"-", "+"}
        first == IF signed THEN 2 ELSE 1
        magnitude == DigitsValue(t, first, 0)
    IN IF signed /\ t[1] = "-" THEN 0 - magnitude ELSE magnitude

\* String(i) for i >= 0
RECURSIVE NumberToString(_)
NumberToString(i) ==
    IF i < 10 THEN <<Digits[i + 1]>>
    ELSE NumberToString(i \div 10) \o <<Digits[(i % 10) + 1]>>

PadStart2_spaces(s) ==
    IF Len(s) >= 2 THEN s
    ELSE IF Len(s) = 1 THEN <<" ">> \o s ELSE <<" ", " ">>

\* s.padStart(2, '0')
PadStart2(s) ==
    IF Len(s) >= 2 THEN s
    ELSE IF Len(s) = 1 THEN <<"0">> \o s ELSE <<"0", "0">>

\* the rows updateDcTable builds: one empty input per unit, data-unit 0
\* when the unit count is not positive
updateDcTable(unitCountText) ==
    LET unitCount == ParseIntOrZero(unitCountText) IN
    IF unitCount <= 0 THEN [u \in {0} |-> <<>>]
    ELSE [u \in 1..unitCount |-> <<>>]

\* (dcInput ? dcInput.value.trim() : "00").padStart(2, '0')
DcCodeOf(table, u) ==
    PadStart2(IF u \in DOMAIN table THEN Trim(table[u]) ELSE <<"0", "0">>)

UnitCodes_fromZero(unitCount) ==
    IF unitCount <= 0 THEN << <<"0", "0">> >>
    ELSE [i \in 1..unitCount |-> PadStart2(NumberToString(i - 1))]

\* the unit codes of the loop: "00" alone, or 01 .. N
UnitCodes(unitCount) ==
    IF unitCount <= 0 THEN << <<"0", "0">> >>
    ELSE [i \in 1..unitCount |-> PadStart2(NumberToString(i))]

\* the codes updateResult shows (dmCodeResult), <<>> when it shows none
updateResult(f, table, systemCode, subsystemCode, baseInfoCode) ==
    LET model == Trim(f.model)
        sdc == Trim(f.sdc)
        dmv == Trim(f.dmv)
        unitCount == ParseIntOrZero(f.unitCount)
        infoCodeVariant == Trim(f.infoCodeVariant)
        finalInfoCode == IF baseInfoCode # <<>>
                         THEN baseInfoCode \o infoCodeVariant
                         ELSE <<"0", "0", "0">>
        itemLocationCode == <<"D">>
        units == UnitCodes(unitCount)
        fullCode(i) ==
            Join(<<model, sdc, systemCode, subsystemCode, units[i],
                   DcCodeOf(table, IF unitCount <= 0 THEN 0 ELSE i) \o dmv,
                   finalInfoCode, itemLocationCode>>)
    IN IF model = <<>> \/ sdc = <<>> \/ systemCode = <<>> \/ Len(dmv) > 1
       THEN <<>>
       ELSE [i \in 1..Len(units) |-> fullCode(i)]

(***************************************************************************)
(* Inputs of the generator specification                                   *)
(***************************************************************************)
TextFields == {"model", "sdc", "dmv", "infoCodeVariant"}

FieldTexts(field) ==
    CASE field = "model" -> { <<>>, <<"M">>, <<" ">> }
      [] field = "sdc" -> { <<>>, <<"A">> }
      [] field = "dmv" -> { <<>>, <<"B">>, <<"B", "C">> }
      [] field = "infoCodeVariant" -> { <<>>, <<"A">> }

UnitCountTexts ==
    { <<>>, <<"-", "1">>, <<"x">>, <<"2", ".", "5">> }
        \cup { NumberToString(n) : n \in 0..MaxUnits }

DcTexts == { <<>>, <<"5">>, <<"1", "2">>, <<" ", "7">> }

InfoCodes == { <<"0", "4", "0">> }

\* the data-* attributes of the leaf items a click can select
LeafDatasets ==
    { [systemCode |-> <<"0", "1">>, subsystemCode |-> <<"1", "0">>],
      [systemCode |-> <<"0", "2">>, subsystemCode |-> <<>>] }

InitGen == GenIdle /\ NonGenIdle

\* 'input' event of modelInput, sdcInput, dmvInput or infoCodeVariantInput
InputText(field, text) ==
    /\ form' = [form EXCEPT ![field] = text]
    /\ dmCodeResult' = updateResult(form', dcTable, selectedSystemCode,
                                    selectedSubsystemCode,
                                    selectedBaseInfoCode)
    /\ UNCHANGED <<dcTable, selectedSystemCode, selectedSubsystemCode,
                   selectedBaseInfoCode>>
    /\ UNCHANGED nonGenVars

\* 'input' event of unitCountInput: updateDcTable(); updateResult()
InputUnitCount(text) ==
    /\ form' = [form EXCEPT !.unitCount = text]
    /\ dcTable' = updateDcTable(text)
    /\ dmCodeResult' = updateResult(form', dcTable', selectedSystemCode,
                                    selectedSubsystemCode,
                                    selectedBaseInfoCode)
    /\ UNCHANGED <<selectedSystemCode, selectedSubsystemCode,
                   selectedBaseInfoCode>>
    /\ UNCHANGED nonGenVars

\* 'input' event of the table input of unit u
InputDc(u, text) ==
    /\ u \in DOMAIN dcTable
    /\ dcTable' = [dcTable EXCEPT ![u] = text]
    /\ dmCodeResult' = updateResult(form, dcTable', selectedSystemCode,
                                    selectedSubsystemCode,
                                    selectedBaseInfoCode)
    /\ UNCHANGED <<form, selectedSystemCode, selectedSubsystemCode,
                   selectedBaseInfoCode>>
    /\ UNCHANGED nonGenVars

handleInfoCodeSelection(code) ==
    /\ selectedBaseInfoCode' = code
    /\ dmCodeResult' = updateResult(form, dcTable, selectedSystemCode,
                                    selectedSubsystemCode, code)
    /\ UNCHANGED <<form, dcTable, selectedSystemCode,
                   selectedSubsystemCode>>
    /\ UNCHANGED nonGenVars

\* selectSystem(item), item given by its data-* attributes: what it assigns
SelectItem(dataset) ==
    /\ selectedSystemCode' = dataset.systemCode
    /\ selectedSubsystemCode' =
          IF dataset.subsystemCode # <<>> THEN dataset.subsystemCode
          ELSE <<"0", "0">>
    /\ dmCodeResult' = updateResult(form, dcTable, selectedSystemCode',
                                    selectedSubsystemCode',
                                    selectedBaseInfoCode)
    /\ UNCHANGED <<form, dcTable, selectedBaseInfoCode>>

\* a click on a leaf of the tree, seen from the form alone
selectSystem(dataset) == SelectItem(dataset) /\ UNCHANGED nonGenVars

NextGen ==
    \/ \E field \in TextFields : \E text \in FieldTexts(field) :
          InputText(field, text)
    \/ \E text \in UnitCountTexts : InputUnitCount(text)
    \/ \E u \in 0..(MaxUnits + 1) : \E text \in DcTexts : InputDc(u, text)
    \/ \E code \in InfoCodes : handleInfoCodeSelection(code)
    \/ \E dataset \in LeafDatasets : selectSystem(dataset)

SpecGen == InitGen /\ [][NextGen]_vars

(***************************************************************************)
(* Hierarchy data: createNode and the four transformers.                   *)
(*                                                                         *)
(* A source entry is carried as [key, title, definition, children]; the    *)
(* fields stand for                                                        *)
(*   ATA      system_id/system_title/tables, system_code/title/definition/ *)
(*            subsystems, subsystem_code/title/definition                  *)
(*   GSV      system_letter/system_title/subsystems, system_code/.../      *)
(*            sub_subsystems, subsystem_code/...                           *)
(*   general  the first key of the object and its array, System/Title/     *)
(*            Definition/Subsystems, Subsystem/Title/Definition            *)
(*   support  System_categories: System/Title/Subsystems, System/Title/    *)
(*            Definition                                                   *)
(***************************************************************************)
Undefined == <<"<undefined>">>

Null == <<"<null>">>

\* !v for a string, null or undefined
Falsy(v) == v \in {Undefined, Null, <<>>}

\* `${v}` and String(v)
Stringify(v) ==
    IF v = Undefined THEN <<"u", "n", "d", "e", "f", "i", "n", "e", "d">>
    ELSE IF v = Null THEN <<"n", "u", "l", "l">>
    ELSE v

createNode(level, code, title, definition, systemCode, subsystemCode, children) ==
    [level |-> level, code |-> code, title |-> title,
     definition |-> definition, children |-> children,
     systemCode |-> systemCode, subsystemCode |-> subsystemCode,
     label |-> Stringify(code) \o <<" ", "-", " ">> \o Stringify(title),
     fullCode |-> IF ~Falsy(systemCode) /\ ~Falsy(subsystemCode)
                  THEN Stringify(systemCode) \o <<Hyphen>>
                          \o Stringify(subsystemCode)
                  ELSE IF ~Falsy(systemCode) THEN systemCode ELSE code]

HasKey_always(entry) == TRUE

\* the filter callbacks: group => group.system_id, sub => sub.Subsystem, ...
HasKey(entry) == ~Falsy(entry.key)

\* array || []: a missing array of a source entry is carried as the empty one
OrEmpty(array) == IF Len(array) = 0 THEN <<>> ELSE array

\* s.replace('-', '')
RemoveFirstHyphen(str) ==
    LET at == {i \in 1..Len(str) : str[i] = Hyphen} IN
    IF at = {} THEN str
    ELSE SubSeq(str, 1, Min(at) - 1) \o SubSeq(str, Min(at) + 1, Len(str))

\* the subsystem nodes of a system entry (ATA, GSV and general data)
SubsystemNodes(system) ==
    LET node(sub) == createNode("subsystem", sub.key, sub.title,
                                sub.definition, system.key,
                                RemoveFirstHyphen(sub.key), <<>>)
        kept == SelectSeq(OrEmpty(system.children), HasKey)
    IN [i \in 1..Len(kept) |-> node(kept[i])]

\* the system nodes of a group entry, each with its subsystem nodes
SystemNodes(systems) ==
    LET node(system) == createNode("system", system.key, system.title,
                                   system.definition, system.key, Null,
                                   SubsystemNodes(system))
        kept == SelectSeq(OrEmpty(systems), HasKey)
    IN [i \in 1..Len(kept) |-> node(kept[i])]

transformAtaData(raw) ==
    LET node(group) == createNode("group", group.key, group.title, <<>>,
                                  group.key, Null,
                                  SystemNodes(group.children))
        kept == SelectSeq(raw, HasKey)
    IN [i \in 1..Len(kept) |-> node(kept[i])]

transformGSVData(raw) ==
    LET node(group) == createNode("group", group.key, group.title, <<>>,
                                  group.key, Null,
                                  SystemNodes(group.children))
        kept == SelectSeq(raw, HasKey)
    IN [i \in 1..Len(kept) |-> node(kept[i])]

\* topKey.replace('=', '').trim().replace(/_/g, ' ')
GroupIdOf(topKey) ==
    LET at == {i \in 1..Len(topKey) : topKey[i] = "="}
        noEq == IF at = {} THEN topKey
                ELSE SubSeq(topKey, 1, Min(at) - 1)
                        \o SubSeq(topKey, Min(at) + 1, Len(topKey))
        trimmed == Trim(noEq)
    IN [i \in 1..Len(trimmed) |->
            IF trimmed[i] = "_" THEN " " ELSE trimmed[i]]

\* only the first key of the object is read; raw is not empty
transformLegacyGeneralData(raw) ==
    LET groupId == GroupIdOf(raw[1].key) IN
    << createNode("group", groupId, groupId, <<>>, groupId, Null,
                  SystemNodes(raw[1].children)) >>

SupportSystemNodes_asSubsystem(systems) ==
    LET node(system) == createNode("subsystem", system.key, system.title,
                                   system.definition, system.key, Null,
                                   <<>>)
        kept == SelectSeq(OrEmpty(systems), HasKey)
    IN [i \in 1..Len(kept) |-> node(kept[i])]

\* the system nodes of a support category: they never get children
SupportSystemNodes(systems) ==
    LET node(system) == createNode("system", system.key, system.title,
                                   system.definition, system.key, Null,
                                   <<>>)
        kept == SelectSeq(OrEmpty(systems), HasKey)
    IN [i \in 1..Len(kept) |-> node(kept[i])]

\* raw stands for rawData.System_categories (a missing list gives [] too)
transformLegacySupportData(raw) ==
    LET node(group) == createNode("group", group.key, group.title, <<>>,
                                  group.key, Null,
                                  SupportSystemNodes(group.children))
        kept == SelectSeq(raw, HasKey)
    IN [i \in 1..Len(kept) |-> node(kept[i])]

\* file names of the selector, one or two per branch of loadSystemData
GeneralFiles == {"Maintained SNS - Generic.json",
                 "maintained_sns_ordanance.json"}

SourceFiles == GeneralFiles \cup {"gsv.json", "maintained_sns_support.json",
                                  "ata.json"}

\* the transformer loadSystemData picks from the file name
TransformFor(file, raw) ==
    IF file \in GeneralFiles THEN transformLegacyGeneralData(raw)
    ELSE IF file = "gsv.json" THEN transformGSVData(raw)
    ELSE IF file = "maintained_sns_support.json"
    THEN transformLegacySupportData(raw)
    ELSE transformAtaData(raw)

\* the transformer throws (TypeError on the missing first key)
TransformThrows(file, raw) == file \in GeneralFiles /\ raw = <<>>

(***************************************************************************)
(* Loading a source: loadSystemData.  Every stored node carries `ref`, the *)
(* identity of its children array (its index path in the stored tree), so  *)
(* that a copy sharing the array can be told from one holding a new array. *)
(***************************************************************************)
RECURSIVE Allocate(_, _)
Allocate(nodes, path) ==
    [i \in 1..Len(nodes) |->
        [level |-> nodes[i].level, code |-> nodes[i].code,
         title |-> nodes[i].title, definition |-> nodes[i].definition,
         children |-> Allocate(nodes[i].children, path \o <<i>>),
         systemCode |-> nodes[i].systemCode,
         subsystemCode |-> nodes[i].subsystemCode,
         label |-> nodes[i].label, fullCode |-> nodes[i].fullCode,
         ref |-> path \o <<i>>]]

\* the entries a response is made of
RawEntries ==
    { [key |-> Undefined, title |-> <<"B", "r">>, definition |-> <<"d">>],
      [key |-> <<"1">>, title |-> <<"B", "r">>, definition |-> <<"d">>],
      [key |-> <<"2", "-", "0">>, title |-> <<"w">>, definition |-> <<"d">>] }

RawEntry(entry) ==
    [key |-> entry.key, title |-> entry.title,
     definition |-> entry.definition, children |-> <<>>]

RECURSIVE EntryCount(_)
EntryCount(entries) ==
    IF entries = <<>> THEN 0
    ELSE 1 + EntryCount(Head(entries).children) + EntryCount(Tail(entries))

\* what the page holds: nodes of the stored tree and entries of the response
Held == EntryCount(fullSystemData) + EntryCount(rawData)

\* the hierarchy pane showing a message instead of items
NoItems == <<>>

createTreeItem(data, level, cls) == [level |-> level, cls |-> cls,
                                     data |-> data]

\* the class buildTree and renderChildren give an item
ItemClass(data, query) ==
    IF Len(data.children) > 0
    THEN (IF query # <<>> THEN "expanded" ELSE "collapsed")
    ELSE "leaf"

InsertAfter_atEnd(items, idx, item) == Append(items, item)

\* item.insertAdjacentElement('afterend', childItem)
InsertAfter(items, idx, item) ==
    SubSeq(items, 1, idx) \o <<item>> \o SubSeq(items, idx + 1, Len(items))

Reverse(array) == [i \in 1..Len(array) |-> array[Len(array) + 1 - i]]

ReverseOfCopy_inPlace(array) ==
    [stored |-> Reverse(array), result |-> Reverse(array)]

\* [...array].reverse(): the array as it is left, and the array returned
ReverseOfCopy(array) == [stored |-> array, result |-> Reverse(array)]

\* the forEach of renderChildren over reversed[k..], each child inserted
\* right after the parent item at position parentIdx
RECURSIVE renderChildrenFrom(_, _, _, _, _)
renderChildrenFrom(items, parentIdx, reversed, k, query) ==
    IF k > Len(reversed) THEN items
    ELSE LET childData == reversed[k]
             childItem == createTreeItem(childData, childData.level,
                                         ItemClass(childData, query))
             inserted == InsertAfter(items, parentIdx, childItem)
             below == IF query # <<>> /\ Len(childData.children) > 0
                      THEN renderChildrenFrom(
                               inserted, parentIdx + 1,
                               ReverseOfCopy(childData.children).result, 1,
                               query)
                      ELSE inserted
         IN renderChildrenFrom(below, parentIdx, reversed, k + 1, query)

renderChildren(items, parentIdx, parentData, query) ==
    renderChildrenFrom(items, parentIdx,
                       ReverseOfCopy(parentData.children).result, 1, query)

\* buildTree over data[k..], appending to items
RECURSIVE buildTreeFrom(_, _, _, _)
buildTreeFrom(items, data, k, query) ==
    IF k > Len(data) THEN items
    ELSE LET groupData == data[k]
             groupItem == createTreeItem(groupData, "group",
                                         ItemClass(groupData, query))
             appended == Append(items, groupItem)
             below == IF query # <<>> /\ Len(groupData.children) > 0
                      THEN renderChildren(appended, Len(appended), groupData,
                                          query)
                      ELSE appended
         IN buildTreeFrom(below, data, k + 1, query)

buildTree(data, query) ==
    IF Len(data) = 0 THEN NoItems ELSE buildTreeFrom(<<>>, data, 1, query)

InitLoad == NonTreeIdle /\ TreeIdle

\* 'change' event of jsonSelector: loadSystemData(file) up to the fetch, with
\* one request in flight at a time
SelectSource(file) ==
    /\ loadState # "fetching"
    /\ sourceFile' = file
    /\ rawData' = <<>>
    /\ loadState' = "fetching"
    /\ treeItems' = NoItems
    /\ selectedSystemCode' = <<>>
    /\ selectedSubsystemCode' = <<>>
    /\ dmCodeResult' = updateResult(form, dcTable, <<>>, <<>>,
                                    selectedBaseInfoCode)
    /\ lastEvent' = [type |-> "change", index |-> 0]
    /\ UNCHANGED <<form, dcTable, selectedBaseInfoCode, fullSystemData,
                   searchInput, debounceTimer, timers, filtered>>
    /\ UNCHANGED <<convVars, batchVars, otherVars>>

\* the JSON of the response, entry by entry: one more group; the keys of a
\* general source are the keys of an object, so they are never missing
ResponseGroup(entry) ==
    /\ loadState = "fetching"
    /\ Held < MaxEntries
    /\ sourceFile \in GeneralFiles => entry.key # Undefined
    /\ rawData' = Append(rawData, RawEntry(entry))
    /\ UNCHANGED <<sourceFile, loadState, fullSystemData, searchInput,
                   debounceTimer, timers, treeItems, filtered, lastEvent>>
    /\ UNCHANGED nonTreeVars

\* one more system in the last group of the response
ResponseSystem(entry) ==
    /\ loadState = "fetching"
    /\ Held < MaxEntries
    /\ Len(rawData) > 0
    /\ rawData' = [rawData EXCEPT ![Len(rawData)].children =
                                      Append(@, RawEntry(entry))]
    /\ UNCHANGED <<sourceFile, loadState, fullSystemData, searchInput,
                   debounceTimer, timers, treeItems, filtered, lastEvent>>
    /\ UNCHANGED nonTreeVars

\* one more subsystem in the last system of the last group of the response
ResponseSubsystem(entry) ==
    /\ loadState = "fetching"
    /\ Held < MaxEntries
    /\ Len(rawData) > 0
    /\ Len(rawData[Len(rawData)].children) > 0
    /\ rawData' = [rawData EXCEPT
                      ![Len(rawData)].children[Len(rawData[Len(rawData)].children)].children =
                          Append(@, RawEntry(entry))]
    /\ UNCHANGED <<sourceFile, loadState, fullSystemData, searchInput,
                   debounceTimer, timers, treeItems, filtered, lastEvent>>
    /\ UNCHANGED nonTreeVars

\* the .then callback of loadSystemData
LoadDone ==
    /\ loadState = "fetching"
    /\ ~TransformThrows(sourceFile, rawData)
    /\ fullSystemData' = Allocate(TransformFor(sourceFile, rawData), <<>>)
    /\ treeItems' = buildTree(fullSystemData', <<>>)
    /\ searchInput' = <<>>
    /\ loadState' = "loaded"
    /\ lastEvent' = [type |-> "loaded", index |-> 0]
    /\ UNCHANGED <<sourceFile, rawData, debounceTimer, timers, filtered>>
    /\ UNCHANGED nonTreeVars

\* what the .catch callback of loadSystemData assigns
LoadCatch ==
    /\ fullSystemData' = <<>>
    /\ treeItems' = NoItems
    /\ lastEvent' = [type |-> "error", index |-> 0]
    /\ UNCHANGED <<sourceFile, rawData, searchInput, debounceTimer, timers, filtered>>
    /\ UNCHANGED nonTreeVars

\* the request fails (network error or a response that is not ok)
LoadFail ==
    /\ loadState = "fetching"
    /\ loadState' = "failed"
    /\ LoadCatch

\* the transformer throws inside the .then callback
LoadThrows ==
    /\ loadState = "fetching"
    /\ TransformThrows(sourceFile, rawData)
    /\ loadState' = "threw"
    /\ LoadCatch

NextLoad ==
    \/ \E file \in SourceFiles : SelectSource(file)
    \/ \E entry \in RawEntries : ResponseGroup(entry)
    \/ \E entry \in RawEntries : ResponseSystem(entry)
    \/ \E entry \in RawEntries : ResponseSubsystem(entry)
    \/ LoadDone
    \/ LoadFail
    \/ LoadThrows

SpecLoad == InitLoad /\ [][NextLoad]_vars

(***************************************************************************)
(* Browsing the hierarchy: search, expand, collapse, select.               *)
(***************************************************************************)
\* the stored tree with the children array at `path` replaced
RECURSIVE WithChildren(_, _, _)
WithChildren(nodes, path, array) ==
    IF Len(path) = 1
    THEN [nodes EXCEPT ![path[1]].children = array]
    ELSE [nodes EXCEPT ![path[1]].children =
                           WithChildren(@, Tail(path), array)]

\* the stored tree after renderChildren(item, data, query): the call works
\* on data.children, which is an array of the stored tree when data.ref
\* names one, and recurses into the children it renders
RECURSIVE StoredAfterRender(_, _, _)
RECURSIVE StoredAfterEach(_, _, _, _)
StoredAfterRender(tree, data, query) ==
    LET own == IF data.ref = <<>> THEN tree
               ELSE WithChildren(tree, data.ref,
                                 ReverseOfCopy(data.children).stored)
    IN StoredAfterEach(own, data.children, 1, query)

\* the stored tree after the renderChildren calls made for nodes[k..]
StoredAfterEach(tree, nodes, k, query) ==
    IF k > Len(nodes) THEN tree
    ELSE LET after == IF query # <<>> /\ Len(nodes[k].children) > 0
                      THEN StoredAfterRender(tree, nodes[k], query)
                      ELSE tree
         IN StoredAfterEach(after, nodes, k + 1, query)

UpperCase == <<"A", "B", "C", "D", "E", "F", "G", "H", "I", "J", "K", "L",
               "M", "N", "O", "P", "Q", "R", "S", "T", "U", "V", "W", "X",
               "Y", "Z">>

LowerCase == <<"a", "b", "c", "d", "e", "f", "g", "h", "i", "j", "k", "l",
               "m", "n", "o", "p", "q", "r", "s", "t", "u", "v", "w", "x",
               "y", "z">>

ToLowerCase_asIs(str) == str

\* str.toLowerCase()
ToLowerCase(str) ==
    [i \in 1..Len(str) |->
        IF \E u \in 1..26 : UpperCase[u] = str[i]
        THEN LowerCase[CHOOSE u \in 1..26 : UpperCase[u] = str[i]]
        ELSE str[i]]

\* str.includes(part)
Includes(str, part) ==
    \E i \in 1..(Len(str) - Len(part) + 1) :
        SubSeq(str, i, i + Len(part) - 1) = part

\* { ...node, children: selfMatch ? node.children : filteredChildren }
PrunedCopy(node, selfMatch, filteredChildren) ==
    [node EXCEPT !.children = IF selfMatch THEN node.children
                              ELSE filteredChildren,
                 !.ref = IF selfMatch THEN node.ref ELSE <<>>]

\* filterNodes of filterSystemData, query trimmed and lower-cased; what map
\* turns into null and filter(Boolean) drops is left out of the result
RECURSIVE filterNodes(_, _)
filterNodes(nodes, query) ==
    IF nodes = <<>> THEN <<>>
    ELSE LET node == Head(nodes)
             selfMatch == Includes(ToLowerCase(node.label), query)
             filteredChildren == filterNodes(node.children, query)
         IN (IF selfMatch \/ Len(filteredChildren) > 0
             THEN <<PrunedCopy(node, selfMatch, filteredChildren)>>
             ELSE <<>>) \o filterNodes(Tail(nodes), query)

filterSystemData(query, stored) ==
    LET q == ToLowerCase(Trim(query)) IN
    IF q = <<>> THEN stored ELSE filterNodes(stored, q)

hierarchyLevels == [group |-> 0, system |-> 1, subsystem |-> 2]

DeeperThan_orSame(nextLevel, currentLevel) ==
    hierarchyLevels[nextLevel] >= hierarchyLevels[currentLevel]

\* nextLevelIndex > currentLevelIndex
DeeperThan(nextLevel, currentLevel) ==
    hierarchyLevels[nextLevel] > hierarchyLevels[currentLevel]

\* the while loop of toggleExpand: the items from position `next` on, after
\* the removals
RECURSIVE RemoveDeeper(_, _, _)
RemoveDeeper(items, next, level) ==
    IF next <= Len(items) /\ DeeperThan(items[next].level, level)
    THEN RemoveDeeper(SubSeq(items, 1, next - 1)
                         \o SubSeq(items, next + 1, Len(items)), next, level)
    ELSE items

toggleExpand(items, idx) ==
    IF items[idx].cls = "expanded"
    THEN RemoveDeeper([items EXCEPT ![idx].cls = "collapsed"], idx + 1,
                      items[idx].level)
    ELSE renderChildren([items EXCEPT ![idx].cls = "expanded"], idx,
                        items[idx].data, <<>>)

\* the data-* attributes selectSystem reads
Dataset(item) ==
    [systemCode |-> Stringify(item.data.systemCode),
     subsystemCode |-> Stringify(item.data.subsystemCode)]

\* a response made of RawEntries: two groups, three systems, five subsystems
SampleResponse ==
    LET missing == RawEntry([key |-> Undefined, title |-> <<"B", "r">>,
                             definition |-> <<"d">>])
        one == RawEntry([key |-> <<"1">>, title |-> <<"B", "r">>,
                         definition |-> <<"d">>])
        twenty == RawEntry([key |-> <<"2", "-", "0">>, title |-> <<"w">>,
                            definition |-> <<"d">>])
    IN << [one EXCEPT !.children =
              << [twenty EXCEPT !.children = <<one, twenty, missing>>],
                 [one EXCEPT !.children = <<twenty, one>>] >>],
          [twenty EXCEPT !.children = <<one>>] >>

BrowseFiles == {"ata.json", "maintained_sns_support.json",
                "maintained_sns_ordanance.json"}

\* text typed into systemSearchInput
Queries == { <<>>, <<" ", " ">>, <<"b", "r">>, <<" ", "B", "R">>, <<"w">>,
             <<"z">> }

\* the page once LoadDone has run for one of the files, an SDC typed before
InitBrowse ==
    /\ ConvIdle
    /\ BatchIdle
    /\ OtherIdle
    /\ form = [EmptyForm EXCEPT !.sdc = <<"A">>]
    /\ dcTable = updateDcTable(form.unitCount)
    /\ selectedSystemCode = <<>>
    /\ selectedSubsystemCode = <<>>
    /\ selectedBaseInfoCode = <<>>
    /\ dmCodeResult = <<>>
    /\ sourceFile \in BrowseFiles
    /\ rawData = SampleResponse
    /\ loadState = "loaded"
    /\ fullSystemData = Allocate(TransformFor(sourceFile, rawData), <<>>)
    /\ searchInput = <<>>
    /\ debounceTimer = 0
    /\ timers = {}
    /\ treeItems = buildTree(fullSystemData, <<>>)
    /\ filtered = <<>>
    /\ lastEvent = [type |-> "loaded", index |-> 0]

TimerIds == 1..(MaxTimers + 1)

clearTimeout_noop(pending, id) == pending

\* clearTimeout(id): the timeout is no longer pending; an id that is not
\* pending (undefined, or a timeout that has fired) is ignored
clearTimeout(pending, id) == pending \ {id}

\* the id setTimeout returns: one that names no pending timeout and differs
\* from the id held before
FreshTimer(pending, held) ==
    Min({ id \in TimerIds : id \notin pending /\ id # held })

\* 'input' event of systemSearchInput: clearTimeout(debounceTimer), then
\* debounceTimer = setTimeout(..., 250)
TypeSearch(text) ==
    LET cleared == clearTimeout(timers, debounceTimer)
    IN /\ Cardinality(cleared) < MaxTimers
       /\ debounceTimer' = FreshTimer(cleared, debounceTimer)
       /\ timers' = cleared \cup {debounceTimer'}
       /\ searchInput' = text
       /\ lastEvent' = [type |-> "input", index |-> 0]
       /\ UNCHANGED <<sourceFile, rawData, loadState, fullSystemData,
                      treeItems, filtered>>
       /\ UNCHANGED nonTreeVars

\* the callback of the pending timeout `id`:
\* buildTree(filterSystemData(systemSearchInput.value), systemSearchInput.value)
DebounceFires(id) ==
    /\ id \in timers
    /\ timers' = timers \ {id}
    /\ filtered' = filterSystemData(searchInput, fullSystemData)
    /\ treeItems' = buildTree(filtered', searchInput)
    /\ fullSystemData' = StoredAfterEach(fullSystemData, filtered', 1,
                                         searchInput)
    /\ lastEvent' = [type |-> "search", index |-> 0]
    /\ UNCHANGED <<sourceFile, rawData, loadState, searchInput,
                   debounceTimer>>
    /\ UNCHANGED nonTreeVars

\* click on a collapsed item: toggleExpand renders its children
ExpandItem(idx) ==
    /\ treeItems[idx].cls = "collapsed"
    /\ treeItems' = toggleExpand(treeItems, idx)
    /\ fullSystemData' = StoredAfterRender(fullSystemData,
                                           treeItems[idx].data, <<>>)
    /\ lastEvent' = [type |-> "expand", index |-> idx]
    /\ UNCHANGED <<sourceFile, rawData, loadState, searchInput,
                   debounceTimer, timers, filtered>>
    /\ UNCHANGED nonTreeVars

\* click on an expanded item: toggleExpand removes what is shown below it
CollapseItem(idx) ==
    /\ treeItems[idx].cls = "expanded"
    /\ treeItems' = toggleExpand(treeItems, idx)
    /\ lastEvent' = [type |-> "collapse", index |-> idx]
    /\ UNCHANGED <<sourceFile, rawData, loadState, fullSystemData,
                   searchInput, debounceTimer, timers, filtered>>
    /\ UNCHANGED nonTreeVars

\* click on an item without children that renderChildren created (a leaf
\* group has no such handler): selectSystem(item)
SelectLeaf(idx) ==
    /\ treeItems[idx].cls = "leaf"
    /\ treeItems[idx].level # "group"
    /\ SelectItem(Dataset(treeItems[idx]))
    /\ lastEvent' = [type |-> "select", index |-> idx]
    /\ UNCHANGED <<sourceFile, rawData, loadState, fullSystemData,
                   searchInput, debounceTimer, timers, treeItems, filtered>>
    /\ UNCHANGED <<convVars, batchVars, otherVars>>

NextBrowse ==
    \/ \E text \in Queries : TypeSearch(text)
    \/ \E id \in TimerIds : DebounceFires(id)
    \/ \E idx \in 1..Len(treeItems) : ExpandItem(idx)
    \/ \E idx \in 1..Len(treeItems) : CollapseItem(idx)
    \/ \E idx \in 1..Len(treeItems) : SelectLeaf(idx)
    \/ \E text \in FieldTexts("model") : InputText("model", text)

SpecBrowse == InitBrowse /\ [][NextBrowse]_vars

\* typing into the search box and clicking in the tree, the form left alone
NextDebounce ==
    \/ \E text \in Queries : TypeSearch(text)
    \/ \E id \in TimerIds : DebounceFires(id)
    \/ \E idx \in 1..Len(treeItems) : ExpandItem(idx)
    \/ \E idx \in 1..Len(treeItems) : CollapseItem(idx)

\* a timeout that stays pending is run by the browser: weak fairness of
\* each timeout's callback, which is enabled exactly while the timeout is
\* pending
SpecDebounce ==
    /\ InitBrowse
    /\ [][NextDebounce]_vars
    /\ \A id \in TimerIds :
          \/ []<>(id \notin timers)
          \/ []<><<DebounceFires(id)>>_vars

\* clicks alone, on the tree buildTree made without a query
NextExpand ==
    \/ \E idx \in 1..Len(treeItems) : ExpandItem(idx)
    \/ \E idx \in 1..Len(treeItems) : CollapseItem(idx)
    \/ \E idx \in 1..Len(treeItems) : SelectLeaf(idx)

SpecExpand == InitBrowse /\ [][NextExpand]_vars

(***************************************************************************)
(* Switching the source while loads are pending: every 'change' event      *)
(* starts a fetch of its own, and the fetches complete in any order.       *)
(***************************************************************************)
\* the stored tree loadSystemData builds from the response for `file`
TreeOf(file) == Allocate(TransformFor(file, SampleResponse), <<>>)

\* the sequence without its i-th element
RemoveAt(seq, i) == SubSeq(seq, 1, i - 1) \o SubSeq(seq, i + 1, Len(seq))

InitSwitch == NonTreeIdle /\ TreeIdle

\* 'change' event of jsonSelector: loadSystemData(file) up to the fetch,
\* whatever else is still being fetched
SwitchSource(file) ==
    /\ Len(requests) < MaxPending
    /\ requests' = Append(requests, file)
    /\ sourceFile' = file
    /\ loadState' = "fetching"
    /\ treeItems' = NoItems
    /\ selectedSystemCode' = <<>>
    /\ selectedSubsystemCode' = <<>>
    /\ dmCodeResult' = updateResult(form, dcTable, <<>>, <<>>,
                                    selectedBaseInfoCode)
    /\ lastEvent' = [type |-> "change", index |-> 0]
    /\ UNCHANGED <<form, dcTable, selectedBaseInfoCode, rawData,
                   fullSystemData, searchInput, debounceTimer, timers, filtered>>
    /\ UNCHANGED <<convVars, batchVars, hdlVars, icnVars>>

\* the .then callback of the i-th pending fetch, with the file name of its
\* own closure
ResponseArrives(i) ==
    /\ requests' = RemoveAt(requests, i)
    /\ rawData' = SampleResponse
    /\ fullSystemData' = TreeOf(requests[i])
    /\ treeItems' = buildTree(fullSystemData', <<>>)
    /\ searchInput' = <<>>
    /\ loadState' = IF requests' = <<>> THEN "loaded" ELSE "fetching"
    /\ lastEvent' = [type |-> "loaded", index |-> 0]
    /\ UNCHANGED <<sourceFile, debounceTimer, timers, filtered>>
    /\ UNCHANGED <<convVars, genVars, batchVars, hdlVars, icnVars>>

\* the .catch callback of the i-th pending fetch
ResponseFails(i) ==
    /\ requests' = RemoveAt(requests, i)
    /\ fullSystemData' = <<>>
    /\ treeItems' = NoItems
    /\ loadState' = IF requests' = <<>> THEN "failed" ELSE "fetching"
    /\ lastEvent' = [type |-> "error", index |-> 0]
    /\ UNCHANGED <<sourceFile, rawData, searchInput, debounceTimer, timers, filtered>>
    /\ UNCHANGED <<convVars, genVars, batchVars, hdlVars, icnVars>>

NextSwitch ==
    \/ \E file \in BrowseFiles : SwitchSource(file)
    \/ \E i \in 1..Len(requests) : ResponseArrives(i)
    \/ \E i \in 1..Len(requests) : ResponseFails(i)

SpecSwitch == InitSwitch /\ [][NextSwitch]_vars

(***************************************************************************)
(* The Content Normalizer's migrateInlineCodes(text) -> {text, changeCount}*)
(* A text is a sequence of lines; a line is an image reference with its    *)
(* icn attribute, a caption with the ICN token it embeds, or other text.   *)
(***************************************************************************)
NoCode == ""

IcnCode == "ICN-AB12-CD34-000000001"

LineKinds == {"image", "caption", "text"}

IcnLines == [kind : LineKinds, code : {NoCode, IcnCode}]

\* an image line immediately followed by a caption that embeds a code
PairAt(lines, i) ==
    /\ i + 1 <= Len(lines)
    /\ lines[i].kind = "image"
    /\ lines[i + 1].kind = "caption"
    /\ lines[i + 1].code # NoCode

HasPair(lines) == \E i \in 1..Len(lines) : PairAt(lines, i)

\* the image line carrying the code as its attribute
WithAttribute(image, code) == [image EXCEPT !.code = code]

StripCode_keeps(caption) == caption

\* the caption with the code stripped, its text otherwise intact
StripCode(caption) == [caption EXCEPT !.code = NoCode]

\* the scan from line i on, `acc` holding the lines already emitted
RECURSIVE migrateFrom(_, _, _)
migrateFrom(lines, i, acc) ==
    IF i > Len(lines) THEN acc
    ELSE IF PairAt(lines, i)
    THEN migrateFrom(lines, i + 2,
                     [text |-> acc.text \o
                                  <<WithAttribute(lines[i], lines[i + 1].code),
                                    StripCode(lines[i + 1])>>,
                      changeCount |-> acc.changeCount + 1,
                      done |-> TRUE])
    ELSE migrateFrom(lines, i + 1,
                     [acc EXCEPT !.text = Append(@, lines[i])])

migrateInlineCodes(lines) ==
    migrateFrom(lines, 1, [text |-> <<>>, changeCount |-> 0, done |-> TRUE])

InitIcn == NonConvIdle /\ ConvIdle

\* one more line of the file to migrate
AppendLine(line) ==
    /\ ~icnOnce.done
    /\ Len(icnInput) < MaxLines
    /\ icnInput' = Append(icnInput, line)
    /\ UNCHANGED <<icnOnce, icnTwice>>
    /\ UNCHANGED nonIcnVars

\* the first pass over the file
Migrate ==
    /\ ~icnOnce.done
    /\ icnOnce' = migrateInlineCodes(icnInput)
    /\ UNCHANGED <<icnInput, icnTwice>>
    /\ UNCHANGED nonIcnVars

\* a second pass over the output of the first
MigrateAgain ==
    /\ icnOnce.done
    /\ ~icnTwice.done
    /\ icnTwice' = migrateInlineCodes(icnOnce.text)
    /\ UNCHANGED <<icnInput, icnOnce>>
    /\ UNCHANGED nonIcnVars

NextIcn ==
    \/ \E line \in IcnLines : AppendLine(line)
    \/ Migrate
    \/ MigrateAgain

SpecIcn == InitIcn /\ [][NextIcn]_vars

(***************************************************************************)
(* The batch conversion handlers of the main process: convert-docx-to-adoc *)
(* and its siblings convert-xml-to-html and convert-adoc-to-xml, which run *)
(* the same steps around their converter.                                  *)
(***************************************************************************)
BatchChannels == {"convert-docx-to-adoc", "convert-xml-to-html",
                  "convert-adoc-to-xml"}

InitBatch == NonConvIdle /\ ConvIdle

\* ipcRenderer.invoke(channel, files): results = [], createTempDir called
Invoke(ch, n) ==
    /\ hpc \in {"idle", "returned"}
    /\ channel' = ch
    /\ fileCount' = n
    /\ hpc' = "mkdir"
    /\ fileIndex' = 0
    /\ tempDir' = "none"
    /\ results' = <<>>
    /\ progress' = <<>>
    /\ fates' = <<>>
    /\ completion' = "none"
    /\ delivered' = NothingDelivered
    /\ UNCHANGED nonBatchVars

\* where the loop goes after file i: the next file, or `return` and finally
AfterFile(i) ==
    IF i < fileCount
    THEN /\ hpc' = "save"
         /\ fileIndex' = i + 1
         /\ completion' = completion
    ELSE /\ hpc' = "cleanup"
         /\ fileIndex' = i
         /\ completion' = "return"

\* createTempDir resolves; the try block is entered
MkdirOk ==
    /\ hpc = "mkdir"
    /\ tempDir' = "exists"
    /\ AfterFile(0)
    /\ UNCHANGED <<channel, fileCount, results, progress, fates, delivered>>
    /\ UNCHANGED nonBatchVars

\* fs.mkdir rejects inside createTempDir, which is awaited before the try
\* block: the handler rejects
MkdirFails ==
    /\ hpc = "mkdir"
    /\ hpc' = "returned"
    /\ completion' = "throw"
    /\ delivered' = [kind |-> "rejected", success |-> FALSE,
                     results |-> <<>>, error |-> "mkdir"]
    /\ UNCHANGED <<channel, fileCount, fileIndex, tempDir, results, progress,
                   fates>>
    /\ UNCHANGED nonBatchVars

ProgressEvent(i, status) ==
    [current |-> i, total |-> fileCount, status |-> status]

\* saveUploadedFile resolves; the 'converting' progress event is sent
SaveOk ==
    /\ hpc = "save"
    /\ hpc' = "convert"
    /\ progress' = Append(progress, ProgressEvent(fileIndex, "converting"))
    /\ UNCHANGED <<channel, fileCount, fileIndex, tempDir, results, fates,
                   completion, delivered>>
    /\ UNCHANGED nonBatchVars

\* saveUploadedFile throws (Buffer.from or fs.writeFile): nothing in the
\* loop catches it, control goes to finally
SaveFails ==
    /\ hpc = "save"
    /\ hpc' = "cleanup"
    /\ completion' = "throw"
    /\ fates' = Append(fates, "save")
    /\ UNCHANGED <<channel, fileCount, fileIndex, tempDir, results, progress,
                   delivered>>
    /\ UNCHANGED nonBatchVars

\* the converter returns { success: true }
ConvertOk ==
    /\ hpc = "convert"
    /\ hpc' = "read"
    /\ UNCHANGED <<channel, fileCount, fileIndex, tempDir, results, progress,
                   fates, completion, delivered>>
    /\ UNCHANGED nonBatchVars

\* the converter returns { success: false, error }: the else branch
ConvertFails ==
    /\ hpc = "convert"
    /\ results' = Append(results, [file |-> fileIndex, success |-> FALSE,
                                   error |-> "tool"])
    /\ progress' = Append(progress, ProgressEvent(fileIndex, "failed"))
    /\ fates' = Append(fates, "tool")
    /\ AfterFile(fileIndex)
    /\ UNCHANGED <<channel, fileCount, tempDir, delivered>>
    /\ UNCHANGED nonBatchVars

\* fs.promises.readFile(outputPath) resolves: the success branch
ReadOk ==
    /\ hpc = "read"
    /\ results' = Append(results, [file |-> fileIndex, success |-> TRUE,
                                   error |-> ""])
    /\ progress' = Append(progress, ProgressEvent(fileIndex, "completed"))
    /\ fates' = Append(fates, "ok")
    /\ AfterFile(fileIndex)
    /\ UNCHANGED <<channel, fileCount, tempDir, delivered>>
    /\ UNCHANGED nonBatchVars

\* fs.promises.readFile(outputPath) rejects: control goes to finally
ReadFails ==
    /\ hpc = "read"
    /\ hpc' = "cleanup"
    /\ completion' = "throw"
    /\ fates' = Append(fates, "read")
    /\ UNCHANGED <<channel, fileCount, fileIndex, tempDir, results, progress,
                   delivered>>
    /\ UNCHANGED nonBatchVars

\* finally { await cleanupTempDir(tempDir) }, then the handler's promise
\* settles: with { success: true, results } or with the error thrown
Finally ==
    /\ hpc = "cleanup"
    /\ hpc' = "returned"
    /\ tempDir' = "removed"
    /\ delivered' = IF completion = "return"
                    THEN [kind |-> "resolved", success |-> TRUE,
                          results |-> results, error |-> ""]
                    ELSE [kind |-> "rejected", success |-> FALSE,
                          results |-> <<>>, error |-> fates[Len(fates)]]
    /\ UNCHANGED <<channel, fileCount, fileIndex, results, progress, fates,
                   completion>>
    /\ UNCHANGED nonBatchVars

NextBatch ==
    \/ \E ch \in BatchChannels : \E n \in 0..MaxFiles : Invoke(ch, n)
    \/ MkdirOk
    \/ MkdirFails
    \/ SaveOk
    \/ SaveFails
    \/ ConvertOk
    \/ ConvertFails
    \/ ReadOk
    \/ ReadFails
    \/ Finally

SpecBatch == InitBatch /\ [][NextBatch]_vars

(***************************************************************************)
(* The handlers that work in a temp directory, as they run side by side:   *)
(* each call creates its directory, runs the body of its try block, and    *)
(* settles after cleanupTempDir.                                           *)
(***************************************************************************)
\* try { loop; return { success: true, results } } finally { cleanup }
FinallyChannels == {"convert-docx-to-adoc", "convert-xml-to-html",
                    "convert-adoc-to-xml", "convert-pdf-to-docx"}

\* try { loop; return {...} } catch { return failure } finally { cleanup }
CaughtChannels == {"rename-files"}

\* try { save; convert; zip in a promise } catch { cleanup; return failure }
ZipChannels == {"split-docx", "split-docx-v2", "extract-icn", "generate-icn",
                "pm-to-toc", "auto-icn", "excel-rename-execute"}

\* try { save; convert; cleanup; return } catch { cleanup; return failure }
DirectChannels == {"validate-icn", "html-to-json", "excel-rename-preview"}

TempDirChannels ==
    FinallyChannels \cup CaughtChannels \cup ZipChannels \cup DirectChannels

\* the argument of createTempDir
PrefixOf(ch) ==
    CASE ch = "convert-docx-to-adoc" -> "docx-to-adoc-"
      [] ch = "convert-xml-to-html" -> "xml-to-html-"
      [] ch = "convert-adoc-to-xml" -> "adoc-to-xml-"
      [] ch = "convert-pdf-to-docx" -> "pdf-to-docx-"
      [] ch = "rename-files" -> "rename-files-"
      [] ch = "split-docx" -> "split-docx-"
      [] ch = "split-docx-v2" -> "split-docx-v2-"
      [] ch = "extract-icn" -> "icn-extract-"
      [] ch = "generate-icn" -> "icn-generate-"
      [] ch = "pm-to-toc" -> "pm-to-toc-"
      [] ch = "auto-icn" -> "auto-icn-"
      [] ch = "excel-rename-execute" -> "excel-execute-"
      [] ch = "validate-icn" -> "icn-validate-"
      [] ch = "html-to-json" -> "html-to-json-"
      [] ch = "excel-rename-preview" -> "excel-rename-"

\* path.join(os.tmpdir(), `${prefix}${Date.now()}`)
TempDirName(prefix, now) == [prefix |-> prefix, stamp |-> now]

ArchiverInScope_everywhere(ch) == ch \in ZipChannels

\* the handlers whose body holds `const archiver = require('archiver')`;
\* the file has no such binding outside the handlers
ArchiverInScope(ch) == ch \in ZipChannels \ {"auto-icn"}

\* the handlers that return the bytes of a file read from the directory
ReadsOutput(ch) ==
    ch \in FinallyChannels \cup CaughtChannels \cup ZipChannels
        \cup {"html-to-json"}

Rejection(message) == [kind |-> "rejected", success |-> FALSE,
                       error |-> message, payload |-> "none"]

Failure(message) == [kind |-> "resolved", success |-> FALSE,
                     error |-> message, payload |-> "none"]

Success(payload) == [kind |-> "resolved", success |-> TRUE, error |-> "",
                     payload |-> payload]

InitHandlers == NonConvIdle /\ ConvIdle

\* Date.now() moves on
Tick ==
    /\ clock < MaxClock
    /\ clock' = clock + 1
    /\ UNCHANGED <<calls, tmpDirs>>
    /\ UNCHANGED nonHdlVars

\* ipcRenderer.invoke(ch, ...): the handler starts, createTempDir is called;
\* each slot runs one call
Call(c, ch) ==
    /\ calls[c].at = "idle"
    /\ calls' = [calls EXCEPT ![c] = [NoCall EXCEPT !.channel = ch,
                                                      !.at = "mkdir"]]
    /\ UNCHANGED <<clock, tmpDirs>>
    /\ UNCHANGED nonHdlVars

\* createTempDir: fs.mkdir(tmpDir, { recursive: true }) resolves, whether
\* or not the directory is already there
CallMkdir(c) ==
    /\ calls[c].at = "mkdir"
    /\ LET dir == TempDirName(PrefixOf(calls[c].channel), clock) IN
       /\ tmpDirs' = tmpDirs \cup {dir}
       /\ calls' = [calls EXCEPT ![c].dir = dir, ![c].created = TRUE,
                                 ![c].at = "body"]
    /\ UNCHANGED clock
    /\ UNCHANGED nonHdlVars

\* createTempDir rejects, before the try block: the handler rejects
CallMkdirFails(c) ==
    /\ calls[c].at = "mkdir"
    /\ calls' = [calls EXCEPT ![c].at = "done",
                              ![c].reply = Rejection("mkdir")]
    /\ UNCHANGED <<clock, tmpDirs>>
    /\ UNCHANGED nonHdlVars

\* what the handler settles with when its try block throws
OnThrow(ch, message) ==
    IF ch \in FinallyChannels THEN Rejection(message) ELSE Failure(message)

\* a statement of the try block throws (saving an upload, a mkdir, readdir,
\* rename or readFile)
CallThrows(c) ==
    /\ calls[c].at = "body"
    /\ calls' = [calls EXCEPT ![c].at = "cleanup",
                              ![c].pending = OnThrow(calls[c].channel, "thrown")]
    /\ UNCHANGED <<clock, tmpDirs>>
    /\ UNCHANGED nonHdlVars

\* the loop of a batch or rename handler runs to its end, reading each
\* output from the directory
CallLoopDone(c) ==
    /\ calls[c].at = "body"
    /\ calls[c].channel \in FinallyChannels \cup CaughtChannels
    /\ calls[c].dir \in tmpDirs
    /\ calls' = [calls EXCEPT ![c].at = "cleanup", ![c].read = "done",
                              ![c].pending = Success("results")]
    /\ UNCHANGED <<clock, tmpDirs>>
    /\ UNCHANGED nonHdlVars

\* the converter returns { success: false, error }
CallConverterFails(c) ==
    /\ calls[c].at = "body"
    /\ calls[c].channel \in ZipChannels \cup DirectChannels
    /\ calls' = [calls EXCEPT ![c].at = "cleanup",
                              ![c].pending = Failure("tool")]
    /\ UNCHANGED <<clock, tmpDirs>>
    /\ UNCHANGED nonHdlVars

\* the converter returns { success: true, ... }
CallConverterOk(c) ==
    LET ch == calls[c].channel IN
    /\ calls[c].at = "body"
    /\ ch \in ZipChannels \cup DirectChannels
    /\ ReadsOutput(ch) => calls[c].dir \in tmpDirs
    /\ calls' =
          IF ch \in DirectChannels
          THEN [calls EXCEPT ![c].at = "cleanup", ![c].scriptOk = TRUE,
                             ![c].read = IF ReadsOutput(ch) THEN "done"
                                         ELSE "none",
                             ![c].pending = Success(IF ReadsOutput(ch)
                                                    THEN "file" ELSE "result")]
          ELSE IF ArchiverInScope(ch)
          THEN [calls EXCEPT ![c].at = "zipping", ![c].scriptOk = TRUE]
          ELSE [calls EXCEPT ![c].at = "cleanup", ![c].scriptOk = TRUE,
                             ![c].pending =
                                 OnThrow(ch, "archiver is not defined")]
    /\ UNCHANGED <<clock, tmpDirs>>
    /\ UNCHANGED nonHdlVars

\* output 'close': the ZIP is read back
CallZipClosed(c) ==
    /\ calls[c].at = "zipping"
    /\ calls[c].dir \in tmpDirs
    /\ calls' = [calls EXCEPT ![c].at = "cleanup", ![c].read = "done",
                              ![c].pending = Success("zip")]
    /\ UNCHANGED <<clock, tmpDirs>>
    /\ UNCHANGED nonHdlVars

\* output 'close' with readFile rejecting, or archive 'error'
CallZipFails(c) ==
    /\ calls[c].at = "zipping"
    /\ calls' = [calls EXCEPT ![c].at = "cleanup",
                              ![c].pending = Rejection("zip")]
    /\ UNCHANGED <<clock, tmpDirs>>
    /\ UNCHANGED nonHdlVars

cleanupTempDir_keeps(dirs, dir, rmFails) == dirs

\* fs.rm(dirPath, { recursive: true, force: true }), its error swallowed
cleanupTempDir(dirs, dir, rmFails) == IF rmFails THEN dirs ELSE dirs \ {dir}

\* await cleanupTempDir(tempDir), then the handler's promise settles
CallSettles(c, rmFails) ==
    /\ calls[c].at = "cleanup"
    /\ tmpDirs' = cleanupTempDir(tmpDirs, calls[c].dir, rmFails)
    /\ calls' = [calls EXCEPT ![c].at = "done", ![c].cleaned = TRUE,
                              ![c].rmFailed = rmFails,
                              ![c].reply = calls[c].pending]
    /\ UNCHANGED clock
    /\ UNCHANGED nonHdlVars

NextHandlers ==
    \/ Tick
    \/ \E c \in CallIds : \E ch \in TempDirChannels : Call(c, ch)
    \/ \E c \in CallIds : CallMkdir(c)
    \/ \E c \in CallIds : CallMkdirFails(c)
    \/ \E c \in CallIds : CallThrows(c)
    \/ \E c \in CallIds : CallLoopDone(c)
    \/ \E c \in CallIds : CallConverterFails(c)
    \/ \E c \in CallIds : CallConverterOk(c)
    \/ \E c \in CallIds : CallZipClosed(c)
    \/ \E c \in CallIds : CallZipFails(c)
    \/ \E c \in CallIds : \E rmFails \in BOOLEAN : CallSettles(c, rmFails)

SpecHandlers == InitHandlers /\ [][NextHandlers]_vars

(***************************************************************************)
(* Claims about processDMC (checked under SpecDMC)                         *)
(***************************************************************************)
InSegs == Split(baseCode)

OutSegs == Split(upgraded.dmc)

Upgraded9 == pc = "done" /\ Len(InSegs) = 9

\* C1: every code with exactly 9 hyphen-delimited segments is upgraded to a
\* code with exactly 11 hyphen-delimited segments.
C1_NineBecomesEleven == Upgraded9 => Len(OutSegs) = 11

\* C2: for a 9-segment code the docType is 'proced' exactly when segment 8
\* without its last character is the string "000", and 'descript' otherwise.
C2_ProceduralIffInfo000 ==
    Upgraded9 =>
        /\ upgraded.docType \in {"proced", "descript"}
        /\ upgraded.docType = "proced" <=>
              /\ Len(InSegs[8]) = 4
              /\ \A i \in 1..3 : InSegs[8][i] = "0"

C2_Witness ==
    /\ Upgraded9
    /\ upgraded.docType = "proced"
    /\ InSegs[8] = <<"0", "0", "0", "A">>

\* C3: for a 9-segment code, segment 4 gives its first and its second
\* character as two segments (an absent character gives an empty segment),
\* segments 7 and 8 each give all-but-last and last character, and the
\* other segments are copied in order.
C3_SplitRule ==
    Upgraded9 =>
        /\ Len(OutSegs) = 12
        /\ \A i \in 1..3 : OutSegs[i] = InSegs[i]
        /\ \A j \in {4, 5} :
              IF Len(InSegs[4]) >= j - 3
              THEN OutSegs[j] = <<InSegs[4][j - 3]>>
              ELSE OutSegs[j] = <<>>
        /\ OutSegs[6] = InSegs[5]
        /\ OutSegs[7] = InSegs[6]
        /\ \A k \in {7, 8} :
              LET all == OutSegs[2 * k - 6]
                  last == OutSegs[2 * k - 5]
              IN /\ all \o last = InSegs[k]
                 /\ Len(last) = IF Len(InSegs[k]) = 0 THEN 0 ELSE 1
        /\ OutSegs[12] = InSegs[9]

C3_Witness ==
    /\ Upgraded9
    /\ InSegs[4] = <<"1">>
    /\ OutSegs[4] = <<"1">>
    /\ OutSegs[5] = <<>>
    /\ InSegs[7] = <<"A", "B", "1">>
    /\ OutSegs[8] = <<"A", "B">>

\* C4: a code whose segment count is not 9 is returned unchanged with
\* docType 'descript'.
C4_Passthrough ==
    (pc = "done" /\ Len(InSegs) # 9) =>
        /\ upgraded.dmc = baseCode
        /\ upgraded.docType = "descript"

C4_Witness ==
    /\ pc = "done"
    /\ Len(InSegs) = 11
    /\ upgraded.dmc = baseCode
    /\ InSegs[8] = <<"0", "0", "0", "A">>

\* C5 (as stated): MODEL-SDC-SYS-12-00-AB1-CD2-E is upgraded to a code with
\* subsystem "1", sub-subsystem "2", disassembly code "AB", variant "1",
\* info code "CD", info variant "2", docType 'descript'.
C5_ExampleSplit ==
    (pc = "done" /\ baseCode = ExampleCode) =>
        /\ Len(OutSegs) >= 11
        /\ OutSegs[4] = <<"1">>
        /\ OutSegs[5] = <<"2">>
        /\ \E k \in {7, 8} :
              /\ OutSegs[k] = <<"A", "B">>
              /\ OutSegs[k + 1] = <<"1">>
              /\ OutSegs[k + 2] = <<"C", "D">>
              /\ OutSegs[k + 3] = <<"2">>
        /\ upgraded.docType = "descript"

\* C5 (amended): MODEL-SDC-SYS-12-00-AB1-CD2-E has 8 segments and is
\* returned unchanged with docType 'descript'; the 9-segment code
\* MODEL-SDC-SYS-12-00-00-AB1-CD2-E is upgraded to subsystem "1",
\* sub-subsystem "2", disassembly code "AB", variant "1", info code "CD",
\* info variant "2", docType 'descript'.
C5_ExampleAmended ==
    /\ (pc = "done" /\ baseCode = ExampleCode) =>
          /\ Len(InSegs) = 8
          /\ upgraded.dmc = ExampleCode
          /\ upgraded.docType = "descript"
    /\ (pc = "done" /\ baseCode = ExampleCode9) =>
          /\ Len(InSegs) = 9
          /\ OutSegs = << <<"M","O","D","E","L">>, <<"S","D","C">>,
                          <<"S","Y","S">>, <<"1">>, <<"2">>,
                          <<"0","0">>, <<"0","0">>,
                          <<"A","B">>, <<"1">>, <<"C","D">>, <<"2">>,
                          <<"E">> >>
          /\ upgraded.docType = "descript"

C5_Witness ==
    /\ pc = "done"
    /\ baseCode = ExampleCode
    /\ upgraded.dmc = ExampleCode

(***************************************************************************)
(* Claims about convertDocxToAdoc (checked under SpecConvert)              *)
(***************************************************************************)
DmcLexeme == ":dmc: DMC-"

\* the text of the ':dmc:' line of a document after "DMC-", NoValue when
\* the document has no such line
DmcLineOf(doc) ==
    LET at == {i \in 1..Len(doc) : doc[i] = DmcLexeme} IN
    IF at = {} THEN NoValue
    ELSE LET rest == SubSeq(doc, Min(at) + 1, Len(doc))
         IN SubSeq(rest, 1, DotRunEnd(rest, 1) - 1)

MalformedCode == baseCode # NoValue /\ Len(Split(baseCode)) \notin {9, 11}

\* C6 (as stated): a code whose segment count is neither 9 nor 11 is
\* rejected with an error reported to the caller, and convertDocxToAdoc
\* never writes such a code into a document header.
C6_MalformedRejected ==
    (pc = "converted" /\ MalformedCode) =>
        /\ ~result.success
        /\ DmcLineOf(outFile) = NoValue

\* C6 (amended): a code whose segment count is not 9 is never rejected:
\* whenever Pandoc and the file reads and writes succeed, convertDocxToAdoc
\* reports success and the ':dmc:' line of the written header carries the
\* code taken from the file name unchanged.
C6_MalformedPassedThrough ==
    (pc = "converted" /\ outcome = "ok") =>
        /\ result.success
        /\ baseCode = ReplaceFirstWithEmpty(filename, DmcPrefix)
        /\ Len(Split(baseCode)) # 9 => DmcLineOf(outFile) = baseCode

C6_Witness ==
    /\ pc = "converted"
    /\ MalformedCode
    /\ result.success
    /\ DmcLineOf(outFile) = <<"r", "e", "p", "o", "r", "t">>

\* C8: the written document is header(code, docType) followed by
\* cleanup(body), followed by the Closeout Requirements footer exactly when
\* docType is 'proced'; header and footer are not passed through cleanup.
C8_Assembled ==
    (pc = "converted" /\ result.success) =>
        LET dt == IF docType = "undefined" THEN "descript" ELSE docType
            header == IF dt = "proced"
                      THEN ProceduralHeaderHead \o upgraded.dmc
                               \o ProceduralHeaderTail
                      ELSE DescriptHeaderHead \o upgraded.dmc
                               \o DescriptHeaderTail
            body == cleanupAdocContent(content)
            n == Len(header) + Len(body)
        IN /\ upgraded = processDMC(baseCode)
           /\ Len(outFile) >= n
           /\ SubSeq(outFile, 1, Len(header)) = header
           /\ SubSeq(outFile, Len(header) + 1, n) = body
           /\ SubSeq(outFile, n + 1, Len(outFile)) =
                 IF docType = "proced" THEN createProceduralFooter ELSE <<>>

C8_Witness ==
    /\ pc = "converted"
    /\ result.success
    /\ docType = "proced"
    /\ content = <<"a", " ", "+">>
    /\ cleaned = <<"a">>
    /\ Len(outFile) = Len(ProceduralHeaderHead) + Len(upgraded.dmc)
                        + Len(ProceduralHeaderTail) + 1
                        + Len(createProceduralFooter)

(***************************************************************************)
(* Claims about cleanupAdocContent (checked under SpecCleanup)             *)
(***************************************************************************)
\* the lines of a text (the pieces between "\n")
RECURSIVE LinesFrom(_, _, _)
LinesFrom(t, i, cur) ==
    IF i > Len(t) THEN <<cur>>
    ELSE IF t[i] = "\n" THEN <<cur>> \o LinesFrom(t, i + 1, <<>>)
    ELSE LinesFrom(t, i + 1, Append(cur, t[i]))

Lines(t) == LinesFrom(t, 1, <<>>)

IsPrefix(a, b) == Len(a) <= Len(b) /\ SubSeq(b, 1, Len(a)) = a

\* the last character of the line that is not white space is a '+'
EndsInMarker(l) ==
    \E i \in 1..Len(l) :
        /\ l[i] = "+"
        /\ \A k \in (i + 1)..Len(l) : l[k] \in WhiteSpace

\* the line is n or more '-' characters, optionally surrounded by white space
IsDashLine(l, n) ==
    \E i \in 1..Len(l) : \E j \in i..Len(l) :
        /\ j - i + 1 >= n
        /\ \A k \in 1..Len(l) :
              IF k >= i /\ k <= j THEN l[k] = "-" ELSE l[k] \in WhiteSpace

\* C7: cleanup is idempotent, cleanup(cleanup(x)) = cleanup(x).
C7_Idempotent == pc = "recleaned" => cleanedTwice = cleaned

\* C9: the first replacement of cleanup removes a trailing '+' marker (with
\* the white space around it) from the lines that end in one and keeps the
\* rest of such a line; it deletes or merges no line and leaves every other
\* line unchanged.
C9_MarkerStripKeepsLines ==
    pc = "cleaned" =>
        LET inL == Lines(content)
            outL == Lines(stripped)
        IN /\ Len(outL) = Len(inL)
           /\ \A k \in 1..Len(inL) :
                 IF EndsInMarker(inL[k])
                 THEN IsPrefix(outL[k], inL[k])
                 ELSE outL[k] = inL[k]

\* C10: every input line made only of three or more '-' (optionally
\* surrounded by white space) appears in the output of cleanup as exactly
\* '---' between two empty lines, and no output line is made only of four
\* or more '-'.
C10_BreaksCanonical ==
    pc = "cleaned" =>
        LET inL == Lines(content)
            outL == Lines(cleaned)
            canonical == {k \in 2..(Len(outL) - 1) :
                            /\ outL[k] = <<"-", "-", "-">>
                            /\ outL[k - 1] = <<>>
                            /\ outL[k + 1] = <<>>}
        IN /\ Cardinality(canonical) >=
                 Cardinality({k \in 1..Len(inL) : IsDashLine(inL[k], 3)})
           /\ \A k \in 1..Len(outL) : ~IsDashLine(outL[k], 4)

(***************************************************************************)
(* Claims about the DM code generator (checked under SpecGen)              *)
(***************************************************************************)
CodeSegs(i) == Split(dmCodeResult[i])

NothingEntered == \A u \in DOMAIN dcTable : dcTable[u] = <<>>

\* one code with unit "00" for a unit count that parses to zero or less,
\* otherwise N codes with units 01 .. N; equal but for the unit segment
\* when no disassembly code was entered
CodesPerUnit ==
    LET n == ParseIntOrZero(form.unitCount) IN
    /\ IF n <= 0
       THEN /\ Len(dmCodeResult) = 1
            /\ CodeSegs(1)[5] = <<"0", "0">>
       ELSE /\ Len(dmCodeResult) = n
            /\ \A i \in 1..n :
                  CodeSegs(i)[5] =
                     IF i < 10 THEN <<"0", Digits[i + 1]>>
                     ELSE <<Digits[(i \div 10) + 1], Digits[(i % 10) + 1]>>
    /\ NothingEntered =>
          \A i, j \in 1..Len(dmCodeResult) :
              /\ Len(CodeSegs(i)) = Len(CodeSegs(j))
              /\ \A k \in 1..Len(CodeSegs(i)) :
                    k # 5 => CodeSegs(i)[k] = CodeSegs(j)[k]

\* C11 (as stated): with non-empty model, SDC and selected system the
\* generator shows one code with unit "00" when the unit count is zero,
\* negative, empty or non-numeric, and otherwise N codes with units 01..N,
\* which differ only in the unit segment when no disassembly code is entered.
C11_CodesPerUnit ==
    (form.model # <<>> /\ form.sdc # <<>> /\ selectedSystemCode # <<>>)
        => CodesPerUnit

\* C11 (amended): the same, given that model and SDC are non-empty after
\* trimming, a system is selected and the trimmed DM variant has at most one
\* character; otherwise no code is shown.
C11_CodesPerUnitAmended ==
    IF /\ Trim(form.model) # <<>>
       /\ Trim(form.sdc) # <<>>
       /\ selectedSystemCode # <<>>
       /\ Len(Trim(form.dmv)) <= 1
    THEN CodesPerUnit
    ELSE dmCodeResult = <<>>

C11_Witness ==
    /\ Len(dmCodeResult) = 2
    /\ form.unitCount = <<"2", ".", "5">>
    /\ form.dmv = <<"B">>
    /\ NothingEntered
    /\ CodeSegs(1)[5] = <<"0", "1">>
    /\ CodeSegs(2)[5] = <<"0", "2">>

\* C12: in every generated code the disassembly-code part of a unit is "00"
\* when nothing was entered for the unit, otherwise the entered (trimmed)
\* value left-padded with zeros to width 2; it never has fewer than 2
\* characters.
C12_DisassemblyCode ==
    \A i \in 1..Len(dmCodeResult) :
        LET u == IF 0 \in DOMAIN dcTable THEN 0 ELSE i
            entered == Trim(dcTable[u])
            seg == CodeSegs(i)[6]
            dc == SubSeq(seg, 1, Len(seg) - Len(Trim(form.dmv)))
        IN /\ u \in DOMAIN dcTable
           /\ Len(dc) >= 2
           /\ Len(entered) = 0 => dc = <<"0", "0">>
           /\ Len(entered) = 1 => dc = <<"0", entered[1]>>
           /\ Len(entered) >= 2 => dc = entered

C12_Witness ==
    /\ Len(dmCodeResult) = 2
    /\ dcTable[1] = <<"5">>
    /\ dcTable[2] = <<>>
    /\ form.dmv = <<"B">>
    /\ CodeSegs(1)[6] = <<"0", "5", "B">>
    /\ CodeSegs(2)[6] = <<"0", "0", "B">>

\* C13: every generated code (hyphen-free inputs) has exactly 9 or exactly
\* 11 hyphen-delimited segments and is a legacy code that processDMC
\* re-encodes.
C13_GeneratedIsLegacy ==
    \A i \in 1..Len(dmCodeResult) :
        /\ Len(CodeSegs(i)) \in {9, 11}
        /\ LegacyShape(CodeSegs(i))
        /\ processDMC(dmCodeResult[i]).dmc # dmCodeResult[i]


(***************************************************************************)
(* Claims about the transformers                                           *)
(***************************************************************************)
LevelOf(nodes) == {nodes[i].level : i \in 1..Len(nodes)}

\* C17: in the tree a transformer produced, the top-level nodes have level
\* group, the children of a group have level system, the children of a
\* system have level subsystem, and a subsystem node has no children
C17_LevelsIncrease ==
    /\ LevelOf(fullSystemData) \subseteq {"group"}
    /\ \A g \in 1..Len(fullSystemData) :
          LET systems == fullSystemData[g].children IN
          /\ LevelOf(systems) \subseteq {"system"}
          /\ \A s \in 1..Len(systems) :
                LET subs == systems[s].children IN
                /\ LevelOf(subs) \subseteq {"subsystem"}
                /\ \A b \in 1..Len(subs) : subs[b].children = <<>>

\* a loaded tree with a subsystem under a system under a group
C17_Witness ==
    /\ loadState = "loaded"
    /\ Len(fullSystemData) > 0
    /\ Len(fullSystemData[1].children) > 0
    /\ Len(fullSystemData[1].children[1].children) > 0

HasKeyField(entry) == entry.key # Undefined

RECURSIVE CodeTree(_)
\* the codes of a list of nodes and, below each, of its children
CodeTree(nodes) ==
    [i \in 1..Len(nodes) |->
        [code |-> nodes[i].code, children |-> CodeTree(nodes[i].children)]]

RECURSIVE KeyTree(_, _)
\* the keys of the entries that have one, in source order, and below each
\* those of its children, down to `depth` levels
KeyTree(entries, depth) ==
    LET kept == SelectSeq(entries, HasKeyField) IN
    [i \in 1..Len(kept) |->
        [code |-> kept[i].key,
         children |-> IF depth = 1 THEN <<>>
                      ELSE KeyTree(kept[i].children, depth - 1)]]

RECURSIVE LacksKeySomewhere(_)
LacksKeySomewhere(entries) ==
    \E i \in 1..Len(entries) :
        ~HasKeyField(entries[i]) \/ LacksKeySomewhere(entries[i].children)

\* C18: an entry of the source without its key field gives no node, the
\* entries next to it are converted all the same (the tree holds exactly the
\* entries that have their key, in source order), and the transformer does
\* not throw because of it
C18_MissingKeyDropped ==
    /\ loadState = "loaded" =>
          IF sourceFile \in GeneralFiles
          THEN /\ Len(fullSystemData) = 1
               /\ CodeTree(fullSystemData[1].children)
                     = KeyTree(rawData[1].children, 2)
          ELSE IF sourceFile = "maintained_sns_support.json"
          THEN CodeTree(fullSystemData) = KeyTree(rawData, 2)
          ELSE CodeTree(fullSystemData) = KeyTree(rawData, 3)
    /\ loadState = "threw" => ~LacksKeySomewhere(rawData)

\* a system without its key was dropped and the system after it converted
C18_Witness ==
    /\ loadState = "loaded"
    /\ Len(rawData) = 1
    /\ HasKeyField(rawData[1])
    /\ Len(rawData[1].children) = 2
    /\ ~HasKeyField(rawData[1].children[1])
    /\ HasKeyField(rawData[1].children[2])
    /\ Len(fullSystemData) = 1
    /\ Len(fullSystemData[1].children) = 1
    /\ fullSystemData[1].children[1].code = rawData[1].children[2].key


(***************************************************************************)
(* Claims about browsing the hierarchy                                     *)
(***************************************************************************)
\* a string with its upper-case letters replaced by the lower-case ones
CaseFolded(str) ==
    [i \in 1..Len(str) |->
        IF \E u \in 1..26 : UpperCase[u] = str[i]
        THEN LowerCase[CHOOSE u \in 1..26 : UpperCase[u] = str[i]]
        ELSE str[i]]

\* the label contains the query, letter case aside
LabelMatches(node, query) ==
    \E i \in 1..(Len(node.label) - Len(query) + 1) :
        CaseFolded(SubSeq(node.label, i, i + Len(query) - 1))
            = CaseFolded(query)

RECURSIVE SubtreeMatches(_, _)
\* the label of the node or of one of its descendants contains the query
SubtreeMatches(node, query) ==
    \/ LabelMatches(node, query)
    \/ \E c \in 1..Len(node.children) :
          SubtreeMatches(node.children[c], query)

RECURSIVE Plain(_)
\* a list of nodes by their fields and children, whichever arrays hold them
Plain(nodes) ==
    [i \in 1..Len(nodes) |->
        [level |-> nodes[i].level, code |-> nodes[i].code,
         label |-> nodes[i].label, fullCode |-> nodes[i].fullCode,
         children |-> Plain(nodes[i].children)]]

RECURSIVE RetainedEverywhere(_, _)
\* at every depth, exactly the nodes that match or have a matching descendant
RetainedEverywhere(nodes, query) ==
    IF nodes = <<>> THEN <<>>
    ELSE (IF SubtreeMatches(Head(nodes), query)
          THEN Plain(<<[Head(nodes) EXCEPT !.children = <<>>]>>)
          ELSE <<>>) \o RetainedEverywhere(Tail(nodes), query)

RECURSIVE RetainedStrict(_, _)
RetainedStrict(nodes, query) ==
    LET kept == RetainedEverywhere(nodes, query)
        origin(i) == CHOOSE n \in 1..Len(nodes) :
                        /\ SubtreeMatches(nodes[n], query)
                        /\ Cardinality({m \in 1..n :
                               SubtreeMatches(nodes[m], query)}) = i
    IN [i \in 1..Len(kept) |->
           [kept[i] EXCEPT !.children =
               RetainedStrict(nodes[origin(i)].children, query)]]

RECURSIVE RetainedBelowMatch(_, _)
\* as RetainedStrict, but a node whose own label matches keeps all children
RetainedBelowMatch(nodes, query) ==
    LET kept == RetainedEverywhere(nodes, query)
        origin(i) == CHOOSE n \in 1..Len(nodes) :
                        /\ SubtreeMatches(nodes[n], query)
                        /\ Cardinality({m \in 1..n :
                               SubtreeMatches(nodes[m], query)}) = i
    IN [i \in 1..Len(kept) |->
           [kept[i] EXCEPT !.children =
               IF LabelMatches(nodes[origin(i)], query)
               THEN Plain(nodes[origin(i)].children)
               ELSE RetainedBelowMatch(nodes[origin(i)].children, query)]]

\* C14 (as stated): for a non-empty query, search retains a node, at any
\* depth, if and only if its label contains the query case-insensitively or
\* a descendant's label does
C14_RetainedIffMatch ==
    (lastEvent.type = "search" /\ searchInput # <<>>) =>
        Plain(filtered) = RetainedStrict(fullSystemData, searchInput)

\* C14 (amended): search compares with the trimmed query; a query empty
\* after trimming returns the whole tree; otherwise a node is retained iff
\* its label or a descendant's contains the query case-insensitively, except
\* below a node whose own label matches, which keeps all its children
\* unchanged; a retained node that does not match keeps exactly its
\* retained children
C14_RetainedAmended ==
    lastEvent.type = "search" =>
        IF Trim(searchInput) = <<>>
        THEN Plain(filtered) = Plain(fullSystemData)
        ELSE Plain(filtered)
                = RetainedBelowMatch(fullSystemData, Trim(searchInput))

\* a search for "w" kept a group that does not match, with fewer children
\* than it has in the stored tree
C14_Witness ==
    /\ lastEvent.type = "search"
    /\ searchInput = <<"w">>
    /\ Len(filtered) = 2
    /\ ~LabelMatches(filtered[1], searchInput)
    /\ Len(filtered[1].children) > 0
    /\ Plain(filtered) # Plain(fullSystemData)


LevelDepth(level) ==
    CASE level = "group" -> 0 [] level = "system" -> 1
      [] level = "subsystem" -> 2

\* `after` is `before` without the run of `run` items that follows position
\* idx, the item at idx now collapsed and everything else in place
RunRemoved(before, after, idx, run) ==
    /\ Len(after) = Len(before) - run
    /\ \A k \in 1..(idx - 1) : after[k] = before[k]
    /\ after[idx] = [before[idx] EXCEPT !.cls = "collapsed"]
    /\ \A k \in (idx + run + 1)..Len(before) : after[k - run] = before[k]

\* the items at idx+1 .. idx+run are all deeper than the item at idx, and
\* the item after them, if any, is not
MaximalDeeperRun(items, idx, run) ==
    /\ \A k \in 1..run :
          LevelDepth(items[idx + k].level) > LevelDepth(items[idx].level)
    /\ idx + run < Len(items) =>
          LevelDepth(items[idx + run + 1].level)
              <= LevelDepth(items[idx].level)

\* C15: collapsing an expanded item removes exactly the maximal run of
\* deeper items that immediately follow it; the item itself, the items
\* before it and the items from the first one at the same or a higher level
\* onward stay, in unchanged order
C15_CollapseRemovesRun ==
    [][(lastEvent'.type = "collapse" /\ treeItems' # treeItems) =>
          \E run \in 0..(Len(treeItems) - lastEvent'.index) :
              /\ MaximalDeeperRun(treeItems, lastEvent'.index, run)
              /\ RunRemoved(treeItems, treeItems', lastEvent'.index, run)]_vars

\* an item with items before and after it has just been collapsed
C15_Witness ==
    /\ lastEvent.type = "collapse"
    /\ lastEvent.index > 1
    /\ lastEvent.index < Len(treeItems)
    /\ treeItems[lastEvent.index].cls = "collapsed"

\* C16: once the hierarchy of a source is built, searching, expanding,
\* collapsing, selecting and generating codes leave the stored tree as it
\* is, nodes, fields and children lists
C16_StoredTreeUnchanged ==
    [][fullSystemData' = fullSystemData]_vars

\* a search returned a pruned copy, an item got expanded (and one of the
\* pruned copy collapsed or expanded), a leaf was selected and a code made
C16_Witness ==
    /\ lastEvent.type \in {"expand", "collapse"}
    /\ searchInput # <<>>
    /\ filtered # <<>>
    /\ Plain(filtered) # Plain(fullSystemData)
    /\ selectedSystemCode # <<>>
    /\ dmCodeResult # <<>>
    /\ fullSystemData = Allocate(TransformFor(sourceFile, rawData), <<>>)


(***************************************************************************)
(* Claims about the batch conversion handlers                              *)
(***************************************************************************)
\* C19: a failure while processing one file never keeps the others from
\* being processed: what the caller receives is a results list with one
\* entry per input file, in input order, entry i having success = false and
\* an error exactly when file i failed
C19_OneEntryPerFile ==
    hpc = "returned" /\ tempDir # "none" =>
        /\ delivered.kind = "resolved"
        /\ Len(delivered.results) = fileCount
        /\ \A i \in 1..fileCount :
              /\ delivered.results[i].file = i
              /\ delivered.results[i].success = (fates[i] = "ok")
              /\ ~delivered.results[i].success
                    => delivered.results[i].error # ""

\* C20: a conversion handler completes with a result record whose success
\* is true, or false together with an error message; it never rejects,
\* whichever step fails
C20_NeverRejects ==
    hpc = "returned" =>
        /\ delivered.kind = "resolved"
        /\ delivered.success \/ delivered.error # ""


(***************************************************************************)
(* Claims about the temp directories of the handlers                       *)
(***************************************************************************)
\* the call has its directory and has not asked for its removal yet
InFlight(c) == calls[c].created /\ calls[c].at \in {"body", "zipping", "cleanup"}

\* C21: two handler invocations that run at the same time never work in the
\* same temp directory, so the directory of a running invocation is never
\* removed by the cleanup of another
C21_ExclusiveTempDir ==
    \A c \in CallIds :
        InFlight(c) =>
            /\ calls[c].dir \in tmpDirs
            /\ \A d \in CallIds \ {c} :
                  InFlight(d) => calls[d].dir # calls[c].dir


\* C23: when the migration script ran without reporting an error, auto-icn
\* returns success = true together with the ZIP of the processed files
C23_AutoIcnSucceeds ==
    \A c \in CallIds :
        (calls[c].channel = "auto-icn" /\ calls[c].at = "done"
            /\ calls[c].scriptOk) =>
            /\ calls[c].reply.kind = "resolved"
            /\ calls[c].reply.success
            /\ calls[c].reply.payload = "zip"

\* the step delivers the result of call c, which had created its directory
Delivers(c) ==
    calls[c].at # "done" /\ calls'[c].at = "done" /\ calls[c].created

\* the step in which call c reads the output it is going to return
ReadsNow(c) == calls[c].read = "none" /\ calls'[c].read = "done"

\* a result that carries bytes read from the directory was read from it
ReadBeforeReturn(c) ==
    calls[c].reply.payload \in {"results", "zip", "file"}
        => calls[c].read = "done"

\* C28 (as stated): when a handler's result is delivered the removal of its
\* temp directory has been requested and the directory is no longer in
\* place, and the output it returns was read before the removal
C28_TempDirGone ==
    [][\A c \in CallIds :
          /\ Delivers(c) => (calls'[c].cleaned /\ calls[c].dir \notin tmpDirs')
          /\ ReadsNow(c) => (~calls[c].cleaned /\ calls[c].dir \in tmpDirs)
          /\ ReadBeforeReturn(c)']_vars

\* C28 (amended): when a handler's result is delivered, cleanupTempDir has
\* been called for its temp directory, and the directory is gone unless the
\* removal itself failed; the output it returns was read before the removal
C28_CleanupRequested ==
    [][\A c \in CallIds :
          /\ Delivers(c) =>
                /\ calls'[c].cleaned
                /\ ~calls'[c].rmFailed => calls[c].dir \notin tmpDirs'
          /\ ReadsNow(c) => (~calls[c].cleaned /\ calls[c].dir \in tmpDirs)
          /\ ReadBeforeReturn(c)']_vars

\* a ZIP handler has returned the archive it read, its directory removed,
\* while the other call was rejected by its finally-style handler
C28_Witness ==
    /\ calls["first"].channel = "split-docx"
    /\ calls["first"].at = "done"
    /\ calls["first"].reply = Success("zip")
    /\ calls["first"].cleaned
    /\ calls["first"].dir \notin tmpDirs
    /\ calls["second"].channel = "convert-docx-to-adoc"
    /\ calls["second"].at = "done"
    /\ calls["second"].created
    /\ calls["second"].reply.kind = "rejected"
    /\ calls["second"].cleaned


(***************************************************************************)
(* Claims about loadSystemData under source switches.                      *)
(***************************************************************************)
\* C22: once every pending load has completed, the stored and displayed
\* tree is the tree built from the most recently selected source (or the
\* empty tree of a failed load), never the tree of an earlier selection
C22_LatestSourceHeld ==
    (requests = <<>> /\ sourceFile # "") =>
        \/ /\ fullSystemData = TreeOf(sourceFile)
           /\ treeItems = buildTree(TreeOf(sourceFile), <<>>)
        \/ /\ fullSystemData = <<>>
           /\ treeItems = NoItems


(***************************************************************************)
(* Claims about migrateInlineCodes.                                        *)
(***************************************************************************)
\* C24: migrateInlineCodes applied to its own output returns that output
\* unchanged with changeCount 0, and on a text with no image line followed
\* by a caption carrying a code it returns the input unchanged with
\* changeCount 0
C24_Idempotent ==
    /\ icnTwice.done =>
          /\ icnTwice.text = icnOnce.text
          /\ icnTwice.changeCount = 0
    /\ (icnOnce.done /\ ~HasPair(icnInput)) =>
          /\ icnOnce.text = icnInput
          /\ icnOnce.changeCount = 0

\* two pairs were migrated by the first pass and the second pass has run
C24_Witness ==
    /\ icnTwice.done
    /\ icnOnce.changeCount = 2
    /\ icnOnce.text # icnInput
    /\ icnOnce.text[1] = [kind |-> "image", code |-> IcnCode]
    /\ icnOnce.text[2] = [kind |-> "caption", code |-> NoCode]


(***************************************************************************)
(* Claims about the displayed list under expand and collapse clicks.       *)
(***************************************************************************)
\* the identities of the displayed items, in display order
DisplayedRefs == [i \in 1..Len(treeItems) |-> treeItems[i].data.ref]

ExpandedRefs ==
    { treeItems[i].data.ref :
        i \in { j \in 1..Len(treeItems) : treeItems[j].cls = "expanded" } }

\* pre-order traversal of nodes[k..], descending only into expanded nodes
RECURSIVE VisiblePreorder(_, _, _)
VisiblePreorder(nodes, k, expanded) ==
    IF k > Len(nodes) THEN <<>>
    ELSE <<nodes[k].ref>>
            \o (IF nodes[k].ref \in expanded
                THEN VisiblePreorder(nodes[k].children, 1, expanded)
                ELSE <<>>)
            \o VisiblePreorder(nodes, k + 1, expanded)

IsProperPrefix(p, q) == Len(p) < Len(q) /\ SubSeq(q, 1, Len(p)) = p

ListIsPreorder ==
    /\ DisplayedRefs = VisiblePreorder(fullSystemData, 1, ExpandedRefs)
    /\ \A i, j \in 1..Len(treeItems) :
          /\ i # j => DisplayedRefs[i] # DisplayedRefs[j]
          /\ (i < j /\ treeItems[i].cls = "collapsed")
                => ~IsProperPrefix(DisplayedRefs[i], DisplayedRefs[j])
    /\ \A j \in 1..Len(treeItems) :
          treeItems[j].level # "group" =>
              \E i \in 1..(j - 1) :
                  /\ DisplayedRefs[i] = SubSeq(DisplayedRefs[j], 1,
                                               Len(DisplayedRefs[j]) - 1)
                  /\ treeItems[i].cls = "expanded"

\* C25: after any expand and collapse clicks on a tree built without a
\* query, the displayed list is the pre-order traversal of the stored tree
\* restricted to nodes whose ancestors are all expanded (items follow their
\* parent, none twice, nothing below a collapsed item), and collapsing the
\* item just expanded restores the previous list
C25_DisplayedPreorder ==
    /\ []ListIsPreorder
    /\ [][lastEvent'.type = "expand" =>
             toggleExpand(treeItems', lastEvent'.index) = treeItems]_vars

\* a group was collapsed while another group and a system of it are open
C25_Witness ==
    /\ lastEvent.type = "collapse"
    /\ treeItems[lastEvent.index].level = "group"
    /\ \E i \in 1..Len(treeItems) :
          treeItems[i].level = "system" /\ treeItems[i].cls = "expanded"
    /\ \E i \in 1..Len(treeItems) : treeItems[i].level = "subsystem"


(***************************************************************************)
(* Claims about rebuilding the legacy code from the upgraded one.          *)
(***************************************************************************)
\* the legacy segments put together again from the pieces of the upgraded
\* code: subsystem and sub-subsystem, disassembly code and variant, info
\* code and variant concatenated, the other pieces copied
Rebuilt(out) ==
    << out[1], out[2], out[3], out[4] \o out[5], out[6], out[7],
       out[8] \o out[9], out[10] \o out[11], out[12] >>

\* C26: for every 9-segment legacy code, the legacy code is rebuilt from
\* the upgraded code by concatenating the split pieces back into segments
\* 4, 7 and 8, the other segments being equal
C26_UpgradeLossless == Upgraded9 => Rebuilt(OutSegs) = InSegs


(***************************************************************************)
(* Claims about the progress events of the batch conversion handlers.      *)
(***************************************************************************)
\* the events sent so far are, file after file, 'converting' followed by
\* one terminal event, with current = the file's position and total = N
EventsInOrder ==
    \A k \in 1..Len(progress) :
        /\ progress[k].current = (k + 1) \div 2
        /\ progress[k].total = fileCount
        /\ (k % 2 = 1) = (progress[k].status = "converting")
        /\ (k % 2 = 0) = (progress[k].status \in {"completed", "failed"})

\* every file has had its 'converting' event and its terminal event, which
\* is 'completed' exactly when its entry of the results list has success
EventsComplete ==
    /\ Len(progress) = 2 * fileCount
    /\ \A i \in 1..fileCount :
          (progress[2 * i].status = "completed")
              = (i <= Len(results) /\ results[i].success)

\* C27: for each file the handler emits 'converting' with current = i+1 and
\* total = N before converting it, then exactly one terminal event before
\* any event of the next file, 'completed' exactly when the file's entry in
\* the results list has success = true
C27_ProgressPerFile ==
    /\ EventsInOrder
    /\ (hpc = "returned" /\ tempDir # "none") => EventsComplete


(***************************************************************************)
(* Claims about selecting a leaf of the hierarchy.                         *)
(***************************************************************************)
\* C29: when the selected leaf has no subsystem code (a system-level leaf),
\* the selected subsystem code becomes "00" and every generated code
\* carries "00" as its subsystem segment
C29_SystemLeafGetsZeros ==
    (lastEvent.type = "select"
        /\ Falsy(treeItems[lastEvent.index].data.subsystemCode)) =>
        /\ selectedSubsystemCode = <<"0", "0">>
        /\ \A i \in 1..Len(dmCodeResult) : CodeSegs(i)[4] = <<"0", "0">>


(***************************************************************************)
(* Claims about the debounced search.                                      *)
(***************************************************************************)
\* the step is an 'input' event of the search box
InputEvent == lastEvent'.type = "input" /\ debounceTimer' # debounceTimer

\* the step is the callback of a search timeout
SearchRuns == lastEvent'.type = "search" /\ timers' # timers

\* C30: at most one search timer is pending at any time, each input event
\* cancels the pending one, and once the input events stop the tree is
\* rebuilt exactly once, from the value the search box holds at that moment
\* applied to the currently stored tree
C30_Debounced ==
    /\ [](Cardinality(timers) <= 1)
    /\ [][InputEvent => (timers' = {debounceTimer'}
                            /\ debounceTimer' \notin timers)]_vars
    /\ [][SearchRuns =>
             /\ timers' = {}
             /\ treeItems' = buildTree(filterSystemData(searchInput,
                                                        fullSystemData),
                                       searchInput)]_vars
    /\ (<>[][~InputEvent]_vars) => (timers # {} ~> timers = {})

\* the search ran after two input events, no timeout left pending
C30_Witness ==
    /\ lastEvent.type = "search"
    /\ debounceTimer = 2
    /\ timers = {}
    /\ searchInput = <<"w">>
    /\ Len(treeItems) > 0

====
